---- MODULE Spec2Model ----
(***************************************************************************)
(* d365-event-decorators: the binding registry (Registry.ts), the          *)
(* decorators that fill it (D365Event), the dispatcher that wires the      *)
(* declared methods to the live form (Dispatcher.ts) and the host's tab    *)
(* state-change events that drive the synthesized expand/collapse          *)
(* listeners.                                                              *)
(***************************************************************************)
EXTENDS Integers, Sequences, FiniteSets, TLC

VARIABLES
    eventRegistry,   \* Registry.ts: Map<Function, FormEventDetails[]>
    durations,       \* DecoratorProfiler.durations
    warningCounts,   \* Dispatcher.ts: Map<string, number>, in insertion order
    run,             \* the last apply run: its instance, form type and form,
                     \* how it ended, what it queued and the operations it made
    calls,           \* the registration calls the last apply run made on the form
    emitted,         \* the lines the last run's flush handed to warnMessage
    lastEvent,       \* the last tab state-change event the host delivered
    invoked,         \* the user methods that event invoked, in order
    pending,         \* calls still to be made (call-list runs)
    done             \* calls made so far (call-list runs)

vars == <<eventRegistry, durations, warningCounts, run, calls, emitted,
          lastEvent, invoked, pending, done>>

----------------------------------------------------------------------------
(* Bounds *)

\* the number of upsert calls (decorator applications) of a run
MaxUpserts == 3
\* the length of a call list whose permutations are compared
MaxCalls == 3
\* the length of a list of calls to the warning aggregator
MaxLogCalls == 5
\* a run starts while fewer than this many warnings are left queued by runs
\* that threw
MaxQueued == 2
\* the length of a list of calls to upsertFunctionEvent and DecoratorProfiler.total
MaxTimingCalls == 4

----------------------------------------------------------------------------
(* Sequence helpers (Array.prototype.includes / find / filter / map) *)

Includes(seq, x) == \E i \in 1..Len(seq) : seq[i] = x

Range(seq) == {seq[i] : i \in 1..Len(seq)}

\* index of the first TRUE of a sequence of booleans, 0 when there is none
FirstTrue(hits) ==
    IF \E i \in 1..Len(hits) : hits[i]
    THEN CHOOSE i \in 1..Len(hits) : hits[i] /\ \A j \in 1..(i - 1) : ~hits[j]
    ELSE 0

NoDuplicates(seq) == \A i, j \in 1..Len(seq) : seq[i] = seq[j] => i = j

----------------------------------------------------------------------------
(* Types.ts *)

GlobalEventType ==
    {"OnDataLoad", "OnLoad", "Loaded", "OnSave", "OnPostSave",
     "OnProcessStatusChange", "OnPreProcessStatusChange", "OnPreStageChange",
     "OnStageChange", "OnStageSelected"}

ComponentEventType ==
    {"OnChange", "OnLookupTagClick", "PreSearch", "OnTabStateChange",
     "OnTabExpand", "OnTabCollapse", "SubGridOnLoad", "SubGridOnRecordSelect",
     "OnReadyStateComplete", "OnOutputChange", "OnResultOpened", "OnSelection",
     "PostSearch"}

FormEventTypes ==
    {"OnLoad", "OnDataLoad", "Loaded", "OnSave", "OnPostSave",
     "OnTabStateChange", "OnTabExpand", "OnTabCollapse",
     "OnChange",
     "OnLookupTagClick", "PreSearch",
     "SubGridOnLoad", "SubGridOnRecordSelect",
     "OnReadyStateComplete",
     "OnProcessStatusChange", "OnPreProcessStatusChange", "OnPreStageChange",
     "OnStageChange", "OnStageSelected",
     "OnOutputChange",
     "OnResultOpened", "OnSelection", "PostSearch"}

\* 'componentNames' in eventDetail
isComponentEventDetail(eventDetail) == "componentNames" \in DOMAIN eventDetail

isMatchingComponentEvent(eventDetail, type) ==
    eventDetail.type = type /\ isComponentEventDetail(eventDetail)

\* the label of each XrmEnum.FormType value
FormTypeLabel ==
    (0 :> "Undefined" @@ 1 :> "Create" @@ 2 :> "Update" @@ 3 :> "ReadOnly" @@
     4 :> "Disabled" @@ 6 :> "BulkEdit" @@ 5 :> "QuickCreate" @@ 11 :> "ReadOptimized")

----------------------------------------------------------------------------
(* Optional arguments and fields: undefined is the empty tuple, a given    *)
(* value v is <<v>>.                                                       *)

Undefined == <<>>
Some(v) == <<v>>
IsDefined(o) == o # <<>>
ValueOf(o) == o[1]

----------------------------------------------------------------------------
(* Registry.ts *)

\* class B extends A; A and every other class extend nothing modelled
BaseClass(constructor) == IF constructor = "B" THEN <<"A">> ELSE <<>>

getFormEventsInherited(registry, constructor) ==
    (IF BaseClass(constructor) # <<>> /\ BaseClass(constructor)[1] \in DOMAIN registry
     THEN registry[BaseClass(constructor)[1]] ELSE <<>>)
    \o (IF constructor \in DOMAIN registry THEN registry[constructor] ELSE <<>>)

registryAfterGetCreates(registry, constructor) ==
    [c \in DOMAIN registry \cup {constructor} |->
        IF c \in DOMAIN registry THEN registry[c] ELSE <<>>]

\* the Map after eventRegistry.get(constructor) || []: get adds no key, and
\* the [] of an unknown class is not stored
registryAfterGet(registry, constructor) == registry

\* eventRegistry.get(constructor) || []
getFormEvents(registry, constructor) ==
    IF constructor \in DOMAIN registry THEN registry[constructor] ELSE <<>>

mergeUniqueIncomingOnly(existing, incoming) == incoming

mergeUniqueKeepAll(existing, incoming) == existing \o incoming

mergeUnique(existing, incoming) ==
    existing \o SelectSeq(incoming, LAMBDA i : ~Includes(existing, i))

mergeEventDetailAlwaysPush(events, eventDetail) == Append(events, eventDetail)

mergeEventDetailOverwrite(events, eventDetail) ==
    LET j == FirstTrue([k \in 1..Len(events) |-> events[k].type = eventDetail.type])
    IN  IF j = 0 THEN Append(events, eventDetail)
        ELSE [events EXCEPT ![j] = eventDetail]

\* the events of an existing entry after eventDetail is merged in
mergeEventDetail(events, eventDetail) ==
    LET j == FirstTrue([k \in 1..Len(events) |-> events[k].type = eventDetail.type])
    IN  IF j = 0 THEN Append(events, eventDetail)
        ELSE IF isComponentEventDetail(events[j]) /\ isComponentEventDetail(eventDetail)
        THEN [events EXCEPT ![j].componentNames =
                  mergeUnique(events[j].componentNames, eventDetail.componentNames)]
        ELSE events

upsertedFormEventsFreshList(formEvents, functionName, eventDetail, formTypes) ==
    <<[events |-> IF IsDefined(eventDetail) THEN <<ValueOf(eventDetail)>> ELSE <<>>,
       functionName |-> functionName,
       formTypes |-> formTypes]>>

upsertedFormEventsAlwaysPush(formEvents, functionName, eventDetail, formTypes) ==
    Append(formEvents,
           [events |-> IF IsDefined(eventDetail) THEN <<ValueOf(eventDetail)>> ELSE <<>>,
            functionName |-> functionName,
            formTypes |-> formTypes])

upsertedFormEventsReplaceFilter(formEvents, functionName, eventDetail, formTypes) ==
    LET i == FirstTrue([k \in 1..Len(formEvents) |-> formEvents[k].functionName = functionName])
    IN  IF i = 0
        THEN Append(formEvents,
                    [events |-> IF IsDefined(eventDetail) THEN <<ValueOf(eventDetail)>> ELSE <<>>,
                     functionName |-> functionName,
                     formTypes |-> formTypes])
        ELSE [formEvents EXCEPT
                 ![i].events = IF IsDefined(eventDetail)
                               THEN mergeEventDetail(@, ValueOf(eventDetail))
                               ELSE @,
                 ![i].formTypes = IF IsDefined(formTypes) THEN formTypes ELSE @]

\* the FormEventDetails[] of constructor after the call; eventDetail and
\* formTypes are optional
upsertedFormEvents(formEvents, functionName, eventDetail, formTypes) ==
    LET i == FirstTrue([k \in 1..Len(formEvents) |-> formEvents[k].functionName = functionName])
    IN  IF i = 0
        THEN Append(formEvents,
                    [events |-> IF IsDefined(eventDetail) THEN <<ValueOf(eventDetail)>> ELSE <<>>,
                     functionName |-> functionName,
                     formTypes |-> formTypes])
        ELSE [formEvents EXCEPT
                 ![i].events = IF IsDefined(eventDetail)
                               THEN mergeEventDetail(@, ValueOf(eventDetail))
                               ELSE @,
                 ![i].formTypes = IF IsDefined(formTypes)
                                  THEN Some(mergeUnique(IF IsDefined(@) THEN ValueOf(@) ELSE <<>>,
                                                        ValueOf(formTypes)))
                                  ELSE @]

upsertFunctionEventEveryClass(registry, constructor, functionName, eventDetail, formTypes) ==
    [c \in DOMAIN registry \cup {constructor} |->
        IF c = constructor
           \/ \E k \in 1..Len(registry[c]) : registry[c][k].functionName = functionName
        THEN upsertedFormEvents(getFormEvents(registry, c), functionName, eventDetail, formTypes)
        ELSE registry[c]]

\* the registry after upsertFunctionEvent(constructor, functionName, eventDetail?, formTypes?)
upsertFunctionEvent(registry, constructor, functionName, eventDetail, formTypes) ==
    LET formEvents == upsertedFormEvents(getFormEvents(registry, constructor),
                                         functionName, eventDetail, formTypes)
    IN  [c \in DOMAIN registry \cup {constructor} |->
            IF c = constructor THEN formEvents ELSE registry[c]]

----------------------------------------------------------------------------
(* DecoratorProfiler *)

recordOverwrite(recorded, duration) == <<duration>>

\* DecoratorProfiler.record(duration): this.durations.push(duration)
record(recorded, duration) == Append(recorded, duration)

\* recorded.reduce((sum, d) => sum + d, initialValue)
RECURSIVE reduceSum(_, _)
reduceSum(recorded, initialValue) ==
    IF recorded = <<>> THEN initialValue
    ELSE reduceSum(Tail(recorded), initialValue + Head(recorded))

\* DecoratorProfiler.total()
total(recorded) == reduceSum(recorded, 0)

----------------------------------------------------------------------------
(* The form: the host's live UI object graph, reached through             *)
(* @sguez/d365-form-helpers.  A form maps the names it holds to the type   *)
(* of the component of that name; an item is a resolved component.         *)

ControlTypes == {"lookup", "grid", "iframe", "standard", "kbsearch"}

ItemsOf(formContext, names, types) ==
    LET present == SelectSeq(names, LAMBDA n : n \in DOMAIN formContext /\ formContext[n] \in types)
    IN  [i \in 1..Len(present) |-> [name |-> present[i], type |-> formContext[present[i]]]]

getTab(formContext, tabNames) == ItemsOf(formContext, tabNames, {"tab"})
getAttribute(formContext, attributeNames) == ItemsOf(formContext, attributeNames, {"attribute"})
getControl(formContext, controlNames) == ItemsOf(formContext, controlNames, ControlTypes)

isTabControl(item) == item.type = "tab"
isAttribute(item) == item.type = "attribute"
isLookupControl(item) == item.type = "lookup"
isGridControl(item) == item.type = "grid"
isIframeControl(item) == item.type = "iframe"
isStandardControl(item) == item.type = "standard"
isKbSearchControl(item) == item.type = "kbsearch"

\* the accessor, type predicate and registration a dispatcher hands to
\* applyComponentEvents are named: the accessors and predicates by their
\* names, a registration by the operation it calls and, for the tab
\* expand / collapse listeners, the display state they wait for
GetItems(getItems, formContext, itemNames) ==
    CASE getItems = "getTab" -> getTab(formContext, itemNames)
      [] getItems = "getAttribute" -> getAttribute(formContext, itemNames)
      [] getItems = "getControl" -> getControl(formContext, itemNames)

ItemTypeChecker(itemTypeChecker, item) ==
    CASE itemTypeChecker = "isTabControl" -> isTabControl(item)
      [] itemTypeChecker = "isAttribute" -> isAttribute(item)
      [] itemTypeChecker = "isLookupControl" -> isLookupControl(item)
      [] itemTypeChecker = "isGridControl" -> isGridControl(item)
      [] itemTypeChecker = "isIframeControl" -> isIframeControl(item)
      [] itemTypeChecker = "isStandardControl" -> isStandardControl(item)
      [] itemTypeChecker = "isKbSearchControl" -> isKbSearchControl(item)

\* formContext.addXxx(items, handler): one batch registration call
BatchCall(eventFunction) == [operation |-> eventFunction]

\* tabControl.addTabStateChange(listener) on each item, the listener
\* forwarding to the handler when the event source's display state is the
\* authorized one
TabSpecificCalls(authorizedTabDisplayState) ==
    [operation |-> "tabControl.addTabStateChange",
     authorizedTabDisplayState |-> authorizedTabDisplayState]

\* the registration calls register(formContext, items, handler) makes
Register(register, items, handler) ==
    IF "authorizedTabDisplayState" \in DOMAIN register
    THEN [k \in 1..Len(items) |->
             [register |-> register.operation,
              items |-> <<items[k]>>,
              handler |-> [functionName |-> handler.functionName,
                           authorizedTabDisplayState |-> register.authorizedTabDisplayState]]]
    ELSE <<[register |-> register.operation, items |-> items, handler |-> handler]>>

----------------------------------------------------------------------------
(* Dispatcher.ts: the warning aggregator *)

logGroupedWarning(counts, message) ==
    LET i == FirstTrue([k \in 1..Len(counts) |-> counts[k].msg = message])
    IN  IF i = 0 THEN Append(counts, [msg |-> message, count |-> 1])
        ELSE [counts EXCEPT ![i].count = @ + 1]

flushGroupedWarningsAlwaysCount(counts) ==
    [i \in 1..Len(counts) |->
        [prefix |-> <<"(", counts[i].count, "x)">>, msg |-> counts[i].msg]]

\* the lines flushGroupedWarnings hands to warnMessage: `${prefix} ${msg}`
flushGroupedWarnings(counts) ==
    [i \in 1..Len(counts) |->
        [prefix |-> IF counts[i].count > 1 THEN <<"(", counts[i].count, "x)">> ELSE <<>>,
         msg |-> counts[i].msg]]

RECURSIVE logAll(_, _)
logAll(counts, messages) ==
    IF messages = <<>> THEN counts
    ELSE logAll(logGroupedWarning(counts, Head(messages)), Tail(messages))

----------------------------------------------------------------------------
(* Dispatcher.ts: FormEventDispatcher                                     *)

RECURSIVE Flatten(_)
Flatten(seqs) == IF seqs = <<>> THEN <<>> ELSE Head(seqs) \o Flatten(Tail(seqs))

isFormTypeAuthorized(formTypes, currentFormType) ==
    \/ ~IsDefined(formTypes)
    \/ Len(ValueOf(formTypes)) = 0
    \/ Includes(ValueOf(formTypes), currentFormType)

\* Each step of apply is modelled by its effects, in the order it makes
\* them: the registration calls on the form, the messages it hands to
\* logGroupedWarning, and whether it ended by throwing.
validateHandlers(instance, handlers) ==
    LET formUnknownEvents ==
            LET unknown == SelectSeq(handlers, LAMBDA h : Len(h.events) = 0)
            IN  [i \in 1..Len(unknown) |-> unknown[i].functionName]
    IN  [calls |-> <<>>,
         warnings |->
            IF Len(formUnknownEvents) > 0
            THEN <<[text |-> "has @FormTypes but no events",
                    constructorName |-> instance.constructor,
                    plural |-> Len(formUnknownEvents) > 1,
                    names |-> formUnknownEvents]>>
            ELSE <<>>,
         thrown |-> FALSE]

\* ContextProvider.from(executionContext): the form context, or an
\* exception when the event context yields none
ContextProviderFrom(executionContext) ==
    IF IsDefined(executionContext)
    THEN [thrown |-> FALSE, formContext |-> ValueOf(executionContext)]
    ELSE [thrown |-> TRUE, formContext |-> [n \in {} |-> "none"]]

\* the handlers a generic dispatcher goes through: those that declare
\* eventType, pass the form type filter and name a member of the instance
HandlersToBind(instance, handlers, formType, eventType) ==
    SelectSeq(handlers, LAMBDA h :
        /\ \E i \in 1..Len(h.events) : h.events[i].type = eventType
        /\ isFormTypeAuthorized(h.formTypes, formType)
        /\ h.functionName \in instance.members)

\* instance[functionName].bind(instance) on the handlers the loop reaches:
\* a member that is not a function has no bind, so the call throws a
\* TypeError and the loop ends there
BoundHandlers(instance, formEvents) ==
    LET i == FirstTrue([k \in 1..Len(formEvents) |->
                           formEvents[k].functionName \notin instance.functions])
    IN  [handlers |-> IF i = 0 THEN formEvents ELSE SubSeq(formEvents, 1, i - 1),
         thrown |-> i # 0]

applySimpleEventsTwice(instance, handlers, formContext, formType, eventType, eventFunction) ==
    LET bound == BoundHandlers(instance, HandlersToBind(instance, handlers, formType, eventType))
        formEvents == bound.handlers
    IN  [calls |-> Flatten(
            [i \in 1..Len(formEvents) |->
                LET e == [register |-> eventFunction, items |-> <<>>,
                          handler |-> [functionName |-> formEvents[i].functionName],
                          eventType |-> eventType]
                IN  <<e, e>>]),
         warnings |-> <<>>,
         thrown |-> bound.thrown]

applySimpleEvents(instance, handlers, formContext, formType, eventType, eventFunction) ==
    LET bound == BoundHandlers(instance, HandlersToBind(instance, handlers, formType, eventType))
        formEvents == bound.handlers
    IN  [calls |->
            [i \in 1..Len(formEvents) |->
                [register |-> eventFunction, items |-> <<>>,
                 handler |-> [functionName |-> formEvents[i].functionName],
                 eventType |-> eventType]],
         warnings |-> <<>>,
         thrown |-> bound.thrown]

applyComponentEvents(instance, handlers, formContext, formType, eventType, getItems, itemTypeChecker, register) ==
    LET bound == BoundHandlers(instance, HandlersToBind(instance, handlers, formType, eventType))
        formEvents == bound.handlers
        \* the (method, EventDetail) pairs in the order the loops visit them
        bindings == Flatten(
            [i \in 1..Len(formEvents) |->
                LET events == SelectSeq(formEvents[i].events,
                                        LAMBDA e : isMatchingComponentEvent(e, eventType))
                IN  [k \in 1..Len(events) |->
                        [functionName |-> formEvents[i].functionName,
                         formItemNames |-> events[k].componentNames]]])
        items(b) == SelectSeq(GetItems(getItems, formContext, b.formItemNames),
                              LAMBDA item : ItemTypeChecker(itemTypeChecker, item))
        foundItemNames(b) == [k \in 1..Len(items(b)) |-> items(b)[k].name]
        unfoundItemNames(b) ==
            SelectSeq(b.formItemNames, LAMBDA itemName : ~Includes(foundItemNames(b), itemName))
        registered(b) ==
            LET made == Register(register, items(b), [functionName |-> b.functionName])
            IN  [k \in 1..Len(made) |-> [eventType |-> eventType] @@ made[k]]
        warned == SelectSeq(bindings, LAMBDA b : Len(unfoundItemNames(b)) > 0)
        messages ==
            [k \in 1..Len(warned) |->
                [text |-> "not found or not applicable for event",
                 constructorName |-> instance.constructor,
                 plural |-> Len(unfoundItemNames(warned[k])) > 1,
                 names |-> unfoundItemNames(warned[k]),
                 eventType |-> eventType,
                 functionName |-> warned[k].functionName,
                 formType |-> FormTypeLabel[formType]]]
    IN  [calls |-> Flatten([k \in 1..Len(bindings) |-> registered(bindings[k])]),
         warnings |-> messages,
         thrown |-> bound.thrown]

----------------------------------------------------------------------------
(* Dispatcher.ts: one dispatcher per event kind *)

applyOnDataLoadEvents(instance, handlers, formContext, formType) ==
    applySimpleEvents(instance, handlers, formContext, formType, "OnDataLoad", "addOnDataLoad")

applyOnLoadEvents(instance, handlers, formContext, formType) ==
    applySimpleEvents(instance, handlers, formContext, formType, "OnLoad", "addOnLoad")

applyLoadedEvents(instance, handlers, formContext, formType) ==
    applySimpleEvents(instance, handlers, formContext, formType, "Loaded", "addLoaded")

applyOnSaveEvents(instance, handlers, formContext, formType) ==
    applySimpleEvents(instance, handlers, formContext, formType, "OnSave", "addOnSave")

applyOnPostSaveEventsThroughOnSave(instance, handlers, formContext, formType) ==
    applySimpleEvents(instance, handlers, formContext, formType, "OnPostSave", "addOnSave")

applyOnPostSaveEvents(instance, handlers, formContext, formType) ==
    applySimpleEvents(instance, handlers, formContext, formType, "OnPostSave", "addOnPostSave")

applyOnTabStateChangeEvents(instance, handlers, formContext, formType) ==
    applyComponentEvents(instance, handlers, formContext, formType, "OnTabStateChange",
        "getTab", "isTabControl", BatchCall("addTabStateChange"))

_applyOnTabSpecificStateEvents(instance, handlers, formContext, formType, eventType, authorizedTabDisplayState) ==
    applyComponentEvents(instance, handlers, formContext, formType, eventType,
        "getTab", "isTabControl", TabSpecificCalls(authorizedTabDisplayState))

applyOnTabExpandEvents(instance, handlers, formContext, formType) ==
    _applyOnTabSpecificStateEvents(instance, handlers, formContext, formType,
                                   "OnTabExpand", "expanded")

applyOnTabCollapseEvents(instance, handlers, formContext, formType) ==
    _applyOnTabSpecificStateEvents(instance, handlers, formContext, formType,
                                   "OnTabCollapse", "collapsed")

applyOnChangeEvents(instance, handlers, formContext, formType) ==
    applyComponentEvents(instance, handlers, formContext, formType, "OnChange",
        "getAttribute", "isAttribute", BatchCall("addOnChange"))

applyOnLookupTagClickEvents(instance, handlers, formContext, formType) ==
    applyComponentEvents(instance, handlers, formContext, formType, "OnLookupTagClick",
        "getControl", "isLookupControl", BatchCall("addOnLookupTagClick"))

applyPreSearchEvents(instance, handlers, formContext, formType) ==
    applyComponentEvents(instance, handlers, formContext, formType, "PreSearch",
        "getControl", "isLookupControl", BatchCall("addPreSearch"))

applySubGridOnLoadEvents(instance, handlers, formContext, formType) ==
    applyComponentEvents(instance, handlers, formContext, formType, "SubGridOnLoad",
        "getControl", "isGridControl", BatchCall("addSubGridOnLoad"))

applySubGridOnRecordSelectEvents(instance, handlers, formContext, formType) ==
    applyComponentEvents(instance, handlers, formContext, formType, "SubGridOnRecordSelect",
        "getControl", "isGridControl", BatchCall("addSubGridOnRecordSelect"))

applyOnReadyStateCompleteEvents(instance, handlers, formContext, formType) ==
    applyComponentEvents(instance, handlers, formContext, formType, "OnReadyStateComplete",
        "getControl", "isIframeControl", BatchCall("addOnReadyStateComplete"))

applyOnProcessStatusChangeEvents(instance, handlers, formContext, formType) ==
    applySimpleEvents(instance, handlers, formContext, formType, "OnProcessStatusChange", "addOnProcessStatusChange")

applyOnPreProcessStatusChangeEvents(instance, handlers, formContext, formType) ==
    applySimpleEvents(instance, handlers, formContext, formType, "OnPreProcessStatusChange", "addOnPreProcessStatusChange")

applyOnPreStageChangeEvents(instance, handlers, formContext, formType) ==
    applySimpleEvents(instance, handlers, formContext, formType, "OnPreStageChange", "addOnPreStageChange")

applyOnStageChangeEvents(instance, handlers, formContext, formType) ==
    applySimpleEvents(instance, handlers, formContext, formType, "OnStageChange", "addOnStageChange")

applyOnStageSelectedEvents(instance, handlers, formContext, formType) ==
    applySimpleEvents(instance, handlers, formContext, formType, "OnStageSelected", "addOnStageSelected")

\* the event type handed to applyComponentEvents is OnReadyStateComplete
applyOnOutputChangeEvents(instance, handlers, formContext, formType) ==
    applyComponentEvents(instance, handlers, formContext, formType, "OnReadyStateComplete",
        "getControl", "isStandardControl", BatchCall("addOnOutputChange"))

applyOnResultOpenedEvents(instance, handlers, formContext, formType) ==
    applyComponentEvents(instance, handlers, formContext, formType, "OnResultOpened",
        "getControl", "isKbSearchControl", BatchCall("addOnResultOpened"))

applyOnSelectionEvents(instance, handlers, formContext, formType) ==
    applyComponentEvents(instance, handlers, formContext, formType, "OnSelection",
        "getControl", "isKbSearchControl", BatchCall("addOnSelection"))

applyPostSearchEvents(instance, handlers, formContext, formType) ==
    applyComponentEvents(instance, handlers, formContext, formType, "PostSearch",
        "getControl", "isKbSearchControl", BatchCall("addOnPostSearch"))

\* an exception ends the run: the steps up to and including the first that
\* throws
UntilThrown(steps) ==
    LET t == FirstTrue([k \in 1..Len(steps) |-> steps[k].thrown])
    IN  IF t = 0 THEN steps ELSE SubSeq(steps, 1, t)

\* the steps FormEventDispatcher.apply runs before its flush, in the order
\* apply calls them, up to and including the first that throws:
\* validateHandlers, ContextProvider.from and the 23 dispatchers
applySteps(registry, instance, executionContext, formType) ==
    LET formEvents == getFormEvents(registry, instance.constructor)
        provided == ContextProviderFrom(executionContext)
        formContext == provided.formContext
    IN  UntilThrown(<<
            validateHandlers(instance, formEvents),
            [calls |-> <<>>, warnings |-> <<>>, thrown |-> provided.thrown],
            applyOnDataLoadEvents(instance, formEvents, formContext, formType),
            applyOnLoadEvents(instance, formEvents, formContext, formType),
            applyLoadedEvents(instance, formEvents, formContext, formType),
            applyOnSaveEvents(instance, formEvents, formContext, formType),
            applyOnPostSaveEvents(instance, formEvents, formContext, formType),
            applyOnTabStateChangeEvents(instance, formEvents, formContext, formType),
            applyOnTabExpandEvents(instance, formEvents, formContext, formType),
            applyOnTabCollapseEvents(instance, formEvents, formContext, formType),
            applyOnChangeEvents(instance, formEvents, formContext, formType),
            applyOnLookupTagClickEvents(instance, formEvents, formContext, formType),
            applyPreSearchEvents(instance, formEvents, formContext, formType),
            applySubGridOnLoadEvents(instance, formEvents, formContext, formType),
            applySubGridOnRecordSelectEvents(instance, formEvents, formContext, formType),
            applyOnReadyStateCompleteEvents(instance, formEvents, formContext, formType),
            applyOnProcessStatusChangeEvents(instance, formEvents, formContext, formType),
            applyOnPreProcessStatusChangeEvents(instance, formEvents, formContext, formType),
            applyOnPreStageChangeEvents(instance, formEvents, formContext, formType),
            applyOnStageChangeEvents(instance, formEvents, formContext, formType),
            applyOnStageSelectedEvents(instance, formEvents, formContext, formType),
            applyOnOutputChangeEvents(instance, formEvents, formContext, formType),
            applyOnResultOpenedEvents(instance, formEvents, formContext, formType),
            applyOnSelectionEvents(instance, formEvents, formContext, formType),
            applyPostSearchEvents(instance, formEvents, formContext, formType) >>)

applyEndFlushAfterValidate(counts, steps) ==
    LET thrown == steps[Len(steps)].thrown
        registered == Flatten([k \in 1..Len(steps) |-> steps[k].calls])
        queued == Flatten([k \in 1..Len(steps) |-> steps[k].warnings])
    IN  [thrown |-> thrown,
         calls |-> registered,
         warnings |-> queued,
         log |-> <<"flushGroupedWarnings">> \o [k \in 1..Len(registered) |-> registered[k].register],
         emitted |-> flushGroupedWarnings(logAll(counts, steps[1].warnings)),
         warningCounts |-> logAll(<<>>, SubSeq(queued, Len(steps[1].warnings) + 1, Len(queued)))]

\* the end of FormEventDispatcher.apply after the steps that ran: what the
\* run registered and queued, the operations it performed on the form and
\* the aggregator in order, the lines its flush emitted and the warning
\* counts it leaves.  A step that throws ends the run there, before
\* flushGroupedWarnings.
applyEnd(counts, steps) ==
    LET thrown == steps[Len(steps)].thrown
        registered == Flatten([k \in 1..Len(steps) |-> steps[k].calls])
        queued == Flatten([k \in 1..Len(steps) |-> steps[k].warnings])
        counted == logAll(counts, queued)
    IN  [thrown |-> thrown,
         calls |-> registered,
         warnings |-> queued,
         log |-> [k \in 1..Len(registered) |-> registered[k].register]
                     \o (IF thrown THEN <<>> ELSE <<"flushGroupedWarnings">>),
         emitted |-> IF thrown THEN <<>> ELSE flushGroupedWarnings(counted),
         warningCounts |-> IF thrown THEN counted ELSE <<>>]

\* FormEventDispatcher.apply
apply(counts, registry, instance, executionContext, formType) ==
    applyEnd(counts, applySteps(registry, instance, executionContext, formType))

----
(* The decorators of D365Event: what each hands to upsertFunctionEvent *)

upsertSimpleEventWithNames(formType) ==
    [eventDetail |-> Some([type |-> formType, componentNames |-> <<>>]),
     formTypes |-> Undefined]

upsertSimpleEvent(formType) ==
    [eventDetail |-> Some([type |-> formType]), formTypes |-> Undefined]

upsertComponentEvent(formType, componentNames) ==
    [eventDetail |-> Some([type |-> formType, componentNames |-> componentNames]),
     formTypes |-> Undefined]

\* D365Event.Filter.FormTypes(formType, ...otherFormTypes)
FilterFormTypes(formTypes) == [eventDetail |-> Undefined, formTypes |-> Some(formTypes)]

\* the decorators of each namespace of D365Event: those of Form and Process
\* take no argument, the others a first name and further names
Form ==
    {upsertSimpleEvent(k) : k \in {"OnLoad", "OnDataLoad", "Loaded", "OnSave", "OnPostSave"}}

Tab(tabControlName, othertabControlNames) ==
    {upsertComponentEvent(k, <<tabControlName>> \o othertabControlNames) :
        k \in {"OnTabStateChange", "OnTabExpand", "OnTabCollapse"}}

Column(attributeName, otherAttributeNames) ==
    {upsertComponentEvent("OnChange", <<attributeName>> \o otherAttributeNames)}

Lookup(lookupControlName, otherLookupControlNames) ==
    {upsertComponentEvent(k, <<lookupControlName>> \o otherLookupControlNames) :
        k \in {"OnLookupTagClick", "PreSearch"}}

SubGrid(gridControlName, otherGridControlNames) ==
    {upsertComponentEvent(k, <<gridControlName>> \o otherGridControlNames) :
        k \in {"SubGridOnLoad", "SubGridOnRecordSelect"}}

IFrame(iframeControlName, otherIframeControlNames) ==
    {upsertComponentEvent("OnReadyStateComplete", <<iframeControlName>> \o otherIframeControlNames)}

Process ==
    {upsertSimpleEvent(k) :
        k \in {"OnProcessStatusChange", "OnPreProcessStatusChange", "OnPreStageChange",
               "OnStageChange", "OnStageSelected"}}

PCF(controlName, otherControlNames) ==
    {upsertComponentEvent("OnOutputChange", <<controlName>> \o otherControlNames)}

KnowledgeBaseSearch(kbSearchControlName, otherKbSearchControlNames) ==
    {upsertComponentEvent(k, <<kbSearchControlName>> \o otherKbSearchControlNames) :
        k \in {"OnResultOpened", "OnSelection", "PostSearch"}}

----------------------------------------------------------------------------
(* Initial state *)

EmptyRegistry == [c \in {} |-> <<>>]
NoRun == [status |-> "none"]
NoEvent == [status |-> "none"]

Init ==
    /\ eventRegistry = EmptyRegistry
    /\ durations = <<>>
    /\ warningCounts = <<>>
    /\ run = NoRun
    /\ calls = <<>>
    /\ emitted = <<>>
    /\ lastEvent = NoEvent
    /\ invoked = <<>>
    /\ pending = <<>>
    /\ done = <<>>

----------------------------------------------------------------------------
(* Actions *)

\* a decorator runs while no form is being handled: upsertFunctionEvent,
\* which ends with DecoratorProfiler.record(end - start)
Upsert(constructor, functionName, eventDetail, formTypes, elapsed) ==
    /\ run = NoRun
    /\ pending = <<>>
    /\ Len(durations) < MaxUpserts
    /\ eventRegistry' = upsertFunctionEvent(eventRegistry, constructor, functionName,
                                            eventDetail, formTypes)
    /\ durations' = record(durations, elapsed)
    /\ UNCHANGED <<warningCounts, run, calls, emitted, lastEvent, invoked, pending, done>>

\* the number of messages handed to logGroupedWarning and not yet flushed
RECURSIVE QueuedTotal(_)
QueuedTotal(counts) ==
    IF counts = <<>> THEN 0
    ELSE counts[1].count + QueuedTotal(Tail(counts))

\* apply returns or throws: the run and what it left on the form, on the
\* console and in warningCounts
Returns(instance, executionContext, formType, st) ==
    /\ run' = [status |-> IF st.thrown THEN "failed" ELSE "applied",
               instance |-> instance,
               executionContext |-> executionContext,
               formContext |-> ContextProviderFrom(executionContext).formContext,
               formType |-> formType,
               warnings |-> st.warnings,
               log |-> st.log]
    /\ calls' = st.calls
    /\ emitted' = st.emitted
    /\ warningCounts' = st.warningCounts
    /\ lastEvent' = NoEvent
    /\ invoked' = <<>>
    /\ UNCHANGED <<eventRegistry, durations, pending, done>>

\* a form loads and its onLoad script constructs the handler, or a script
\* calls the dispatcher itself:
\* FormEventDispatcher.apply(instance, executionContext, formType), where
\* executionContext yields a form context or none.  A run that throws
\* leaves its registrations on the form and its warnings in warningCounts.
Apply(instance, executionContext, formType) ==
    /\ run = NoRun
    /\ pending = <<>>
    /\ done = <<>>
    /\ QueuedTotal(warningCounts) < MaxQueued
    /\ Returns(instance, executionContext, formType,
               apply(warningCounts, eventRegistry, instance, executionContext, formType))

getFormTypeAlwaysCreate(ui) == 1

\* formContext.ui.getFormType()
getFormType(ui) == ui.formType

\* the handler the constructor leaves: decoratorProfiling.start is set
\* before FormEventDispatcher.apply is called, decoratorProfiling.end after
\* it returned; an exception of apply leaves the constructor at once
Constructed(instance, executionContext, ui, formType, start, end, st) ==
    [status |-> IF st.thrown THEN "failed" ELSE "applied",
     instance |-> instance,
     executionContext |-> executionContext,
     formContext |-> ContextProviderFrom(executionContext).formContext,
     formType |-> formType,
     warnings |-> st.warnings,
     log |-> st.log,
     ui |-> ui,
     decoratorProfiling |->
        [start |-> Some(start), end |-> IF st.thrown THEN Undefined ELSE Some(end)],
     lifecycle |->
        <<"Provider.from", "getFormType", "markFormEventStarted",
          "FormEventDispatcher.apply">>
        \o (IF st.thrown THEN <<>> ELSE <<"markFormEventApplied">>)]

\* the constructor threw at Provider.from(executionContext): no form type,
\* no mark, no call of apply
NotConstructed(instance, executionContext, ui) ==
    [status |-> "failed",
     instance |-> instance,
     executionContext |-> executionContext,
     formContext |-> ContextProviderFrom(executionContext).formContext,
     formType |-> Undefined,
     warnings |-> <<>>,
     log |-> <<>>,
     ui |-> ui,
     decoratorProfiling |-> [start |-> Undefined, end |-> Undefined],
     lifecycle |-> <<"Provider.from">>]

\* the constructor went through apply: what apply left on the form, on the
\* console and in warningCounts
ConstructorReturns(instance, executionContext, ui, start, end, st) ==
    /\ run' = Constructed(instance, executionContext, ui, getFormType(ui), start, end, st)
    /\ calls' = st.calls
    /\ emitted' = st.emitted
    /\ warningCounts' = st.warningCounts

\* new Handler(executionContext) in the onLoad script of a form whose ui
\* reports the form type; start and end are what performance.now() returns
\* at the two marks
Construct(instance, executionContext, ui, start, end) ==
    /\ run = NoRun
    /\ pending = <<>>
    /\ done = <<>>
    /\ QueuedTotal(warningCounts) < MaxQueued
    /\ start <= end
    /\ lastEvent' = NoEvent
    /\ invoked' = <<>>
    /\ UNCHANGED <<eventRegistry, durations, pending, done>>
    /\ IF ContextProviderFrom(executionContext).thrown
       THEN /\ run' = NotConstructed(instance, executionContext, ui)
            /\ UNCHANGED <<calls, emitted, warningCounts>>
       ELSE ConstructorReturns(instance, executionContext, ui, start, end,
                apply(warningCounts, eventRegistry, instance, executionContext,
                      getFormType(ui)))

\* FormEventDispatcher.apply statement by statement: the call is entered.
\* formEvents is read from the registry once (getFormEvents), so what each
\* statement of this call does is settled from here on: steps holds it,
\* statement by statement, up to the first that throws
BeginApply(instance, executionContext, formType) ==
    /\ run = NoRun
    /\ pending = <<>>
    /\ done = <<>>
    /\ QueuedTotal(warningCounts) < MaxQueued
    /\ run' = [status |-> "running",
               instance |-> instance,
               executionContext |-> executionContext,
               formContext |-> ContextProviderFrom(executionContext).formContext,
               formType |-> formType,
               warnings |-> <<>>,
               log |-> <<>>,
               pc |-> 0,
               steps |-> applySteps(eventRegistry, instance, executionContext, formType)]
    /\ calls' = <<>>
    /\ emitted' = <<>>
    /\ lastEvent' = NoEvent
    /\ invoked' = <<>>
    /\ UNCHANGED <<eventRegistry, durations, warningCounts, pending, done>>

NextPcStay(pc) == pc

\* control passes to the statement after the one at pc
NextPc(pc) == pc + 1

\* the statement at run.pc + 1 is executed: validateHandlers, then
\* ContextProvider.from, then the dispatchers in their order; what it
\* registers goes to the form, what it queues to warningCounts, and an
\* exception ends the run
ApplyStatement ==
    /\ run.status = "running"
    /\ run.pc < Len(run.steps)
    /\ run' = [run EXCEPT
                  !.pc = NextPc(@),
                  !.status = IF run.steps[run.pc + 1].thrown THEN "failed" ELSE @,
                  !.warnings = @ \o run.steps[run.pc + 1].warnings,
                  !.log = @ \o [k \in 1..Len(run.steps[run.pc + 1].calls) |->
                                   run.steps[run.pc + 1].calls[k].register]]
    /\ calls' = calls \o run.steps[run.pc + 1].calls
    /\ warningCounts' = logAll(warningCounts, run.steps[run.pc + 1].warnings)
    /\ UNCHANGED <<eventRegistry, durations, emitted, lastEvent, invoked, pending, done>>

\* every statement before it was executed: flushGroupedWarnings() and return
ApplyFlush ==
    /\ run.status = "running"
    /\ run.pc = Len(run.steps)
    /\ run' = [run EXCEPT !.status = "applied", !.log = Append(@, "flushGroupedWarnings")]
    /\ emitted' = flushGroupedWarnings(warningCounts)
    /\ warningCounts' = <<>>
    /\ UNCHANGED <<eventRegistry, durations, calls, lastEvent, invoked, pending, done>>

\* what logRegisteredFormEvents writes to the console: per MethodBinding the
\* group "+ functionName", a line per EventDetail with its type and, for a
\* component event, its names, and the line of the form type labels or All
logRegisteredFormEvents(registry, instance) ==
    LET formEvents == getFormEvents(registry, instance.constructor)
    IN  [i \in 1..Len(formEvents) |->
            [group |-> formEvents[i].functionName,
             details |->
                [j \in 1..Len(formEvents[i].events) |->
                    [typeDesc |-> formEvents[i].events[j].type,
                     extras |-> IF isComponentEventDetail(formEvents[i].events[j])
                                THEN formEvents[i].events[j].componentNames ELSE <<>>]],
             formTypes |->
                IF IsDefined(formEvents[i].formTypes)
                THEN [k \in 1..Len(ValueOf(formEvents[i].formTypes)) |->
                         FormTypeLabel[ValueOf(formEvents[i].formTypes)[k]]]
                ELSE <<"All">>]]

\* handler.logRegisteredFormEvents() on the handler of the form, once
LogRegisteredFormEvents ==
    /\ run # NoRun
    /\ run.status = "applied"
    /\ ~Includes(run.log, "logRegisteredFormEvents")
    /\ run' = [run EXCEPT !.log = Append(@, "logRegisteredFormEvents")]
    /\ emitted' = emitted \o logRegisteredFormEvents(eventRegistry, run.instance)
    /\ eventRegistry' = registryAfterGet(eventRegistry, run.instance.constructor)
    /\ UNCHANGED <<durations, warningCounts, calls, lastEvent, invoked, pending, done>>

\* the listeners the last run left on a tab, in registration order
TabListeners(tabName) ==
    SelectSeq(calls, LAMBDA call :
        /\ call.register \in {"addTabStateChange", "tabControl.addTabStateChange"}
        /\ \E k \in 1..Len(call.items) : call.items[k].name = tabName)

ForwardsUngated(handler, source) ==
    IF "authorizedTabDisplayState" \in DOMAIN handler THEN source.present ELSE TRUE

\* whether a listener forwards an event of the given source to the user
\* method: the handler itself always, the expand/collapse wrapper when the
\* source is there and its display state is the authorized one
Forwards(handler, source) ==
    IF "authorizedTabDisplayState" \in DOMAIN handler
    THEN source.present /\ source.displayState = handler.authorizedTabDisplayState
    ELSE TRUE

readsDisplayStateUnguarded(handler, source) ==
    "authorizedTabDisplayState" \in DOMAIN handler

\* whether a listener calls getDisplayState() on the source of the event:
\* the expand/collapse wrapper only, and only under "if (tabControl)"
readsDisplayState(handler, source) ==
    "authorizedTabDisplayState" \in DOMAIN handler /\ source.present

\* whether a listener raises on an event of the given source: reading the
\* display state of a source that is null is a TypeError
Raises(reads, source) == reads /\ ~source.present

\* the host delivers a tab state-change event to the listeners of a tab
TabStateChange(tabName, source) ==
    /\ run # NoRun
    /\ tabName \in DOMAIN run.formContext
    /\ run.formContext[tabName] = "tab"
    /\ lastEvent' = [status |-> "delivered", tab |-> tabName, source |-> source,
                     raised |-> \E k \in 1..Len(TabListeners(tabName)) :
                                   Raises(readsDisplayState(TabListeners(tabName)[k].handler,
                                                            source), source)]
    /\ invoked' =
           LET forwarded == SelectSeq(TabListeners(tabName),
                                      LAMBDA call : Forwards(call.handler, source))
           IN  [k \in 1..Len(forwarded) |->
                   [functionName |-> forwarded[k].handler.functionName,
                    eventType |-> forwarded[k].eventType]]
    /\ UNCHANGED <<eventRegistry, durations, warningCounts, run, calls, emitted, pending, done>>

listenerRunsIfAuthorized(handlers, call, formType) ==
    \E i \in 1..Len(handlers) :
        /\ handlers[i].functionName = call.handler.functionName
        /\ isFormTypeAuthorized(handlers[i].formTypes, formType)

\* whether the listener of a registration call runs the user method when
\* the host fires the event on a form that has the given form type now:
\* the listener is instance[functionName].bind(instance) itself, it looks
\* at nothing
listenerRuns(handlers, call, formType) == TRUE

\* the listeners a registration operation left on the form, for the
\* component of the given name when the operation is one on components
ListenersOf(operation, componentName) ==
    SelectSeq(calls, LAMBDA call :
        /\ call.register = operation
        /\ call.items # <<>> => \E k \in 1..Len(call.items) : call.items[k].name = componentName)

\* the host fires the event the listeners of operation wait for, on the
\* component of the given name (of no account for a form-level event)
HostEvent(operation, componentName) ==
    /\ run # NoRun
    /\ run.status = "applied"
    /\ lastEvent' = [status |-> "delivered", operation |-> operation,
                     component |-> componentName, formType |-> getFormType(run.ui)]
    /\ invoked' =
           LET ran == SelectSeq(ListenersOf(operation, componentName), LAMBDA call :
                          listenerRuns(getFormEvents(eventRegistry, run.instance.constructor),
                                       call, getFormType(run.ui)))
           IN  [k \in 1..Len(ran) |->
                   [functionName |-> ran[k].handler.functionName,
                    eventType |-> ran[k].eventType]]
    /\ UNCHANGED <<eventRegistry, durations, warningCounts, run, calls, emitted, pending, done>>

\* the form type of the open form changes, as from Create to Update when
\* the record is saved: formContext.ui.getFormType() returns formType from
\* now on
FormTypeChanged(formType) ==
    /\ run # NoRun
    /\ run.status = "applied"
    /\ getFormType(run.ui) # formType
    /\ run' = [run EXCEPT !.ui = [formType |-> formType]]
    /\ UNCHANGED <<eventRegistry, durations, warningCounts, calls, emitted, lastEvent, invoked, pending, done>>

\* the form is closed: its listeners go with it, the registry stays
FormClosed ==
    /\ run # NoRun
    /\ run' = NoRun
    /\ calls' = <<>>
    /\ emitted' = <<>>
    /\ lastEvent' = NoEvent
    /\ invoked' = <<>>
    /\ UNCHANGED <<eventRegistry, durations, warningCounts, pending, done>>

\* the form is closed after apply returned or threw
FormClosedAfterApply ==
    /\ run.status \in {"applied", "failed"}
    /\ FormClosed

EventSources ==
    {[present |-> FALSE]} \cup
    {[present |-> TRUE, displayState |-> d] : d \in {"expanded", "collapsed"}}

----------------------------------------------------------------------------
(* Spec: a handler class with form-level, iframe and PCF bindings and form *)
(* type filters, dispatched on a form of two controls.                     *)

Classes == {"A"}
Methods == {"m1", "m2"}
Elapsed == {1}
FormTypes == {1, 2, 3}

Decorators ==
    {upsertSimpleEvent("OnLoad"),
     upsertComponentEvent("OnReadyStateComplete", <<"a", "b">>),
     upsertComponentEvent("OnOutputChange", <<"a", "b">>),
     FilterFormTypes(<<1, 2>>)}

\* the instances: members are the names instance[name] finds something
\* truthy under, functions those of them that are functions.  m1 is always
\* a method, m2 may be missing.
Instances ==
    {[constructor |-> c, members |-> m, functions |-> m] :
        c \in Classes, m \in {{"m1", "m2"}, {"m1"}}}

\* every form that holds some of the controls a and b, each an iframe or a
\* standard (PCF) control
Forms ==
    UNION {[D -> {"iframe", "standard"}] : D \in SUBSET {"a", "b"}}

UpsertStep ==
    \E c \in Classes, fn \in Methods, d \in Decorators, e \in Elapsed :
        Upsert(c, fn, d.eventDetail, d.formTypes, e)

ApplyStep ==
    \E i \in Instances, f \in Forms, t \in FormTypes : Apply(i, Some(f), t)

Next == UpsertStep \/ ApplyStep \/ FormClosed

Spec == Init /\ [][Next]_vars

----------------------------------------------------------------------------
(* SpecTab: a handler class with tab bindings, dispatched on a form that   *)
(* may hold the tab t, and the tab's state-change events.                  *)

TabDecorators ==
    {upsertComponentEvent("OnTabStateChange", <<"t">>),
     upsertComponentEvent("OnTabExpand", <<"t">>),
     upsertComponentEvent("OnTabCollapse", <<"t">>),
     FilterFormTypes(<<1>>)}

\* t is a tab, or a control of that name, or not on the form
TabForms == {[n \in {"t"} |-> "tab"], [n \in {"t"} |-> "standard"], [n \in {} |-> "tab"]}

TabFormTypes == {1, 2}

UpsertTabStep ==
    \E c \in Classes, fn \in Methods, d \in TabDecorators, e \in Elapsed :
        Upsert(c, fn, d.eventDetail, d.formTypes, e)

ApplyTabStep ==
    \E i \in Instances, f \in TabForms, t \in TabFormTypes : Apply(i, Some(f), t)

TabEventStep ==
    \E n \in {"t"}, source \in EventSources : TabStateChange(n, source)

NextTab == UpsertTabStep \/ ApplyTabStep \/ TabEventStep \/ FormClosed

SpecTab == Init /\ [][NextTab]_vars

----------------------------------------------------------------------------
(* SpecCalls: a list of upsertFunctionEvent calls for one method of one    *)
(* class, drawn at the start and made one by one.  The arguments cover     *)
(* what the decorators pass (an EventDetail or form types), lists that     *)
(* repeat a value, the empty form type list, and calls that pass both or   *)
(* neither.                                                                *)

UpsertArgs ==
    {upsertSimpleEvent("OnLoad"),
     upsertComponentEvent("OnChange", <<"a">>),
     upsertComponentEvent("OnChange", <<"b">>),
     upsertComponentEvent("OnChange", <<"a", "b">>),
     upsertComponentEvent("OnChange", <<"b", "a">>),
     upsertComponentEvent("OnChange", <<"a", "a">>),
     upsertComponentEvent("OnTabExpand", <<"a">>),
     FilterFormTypes(<<1>>),
     FilterFormTypes(<<2>>),
     FilterFormTypes(<<1, 2>>),
     FilterFormTypes(<<2, 2>>),
     FilterFormTypes(<<>>),
     [eventDetail |-> Undefined, formTypes |-> Undefined],
     [eventDetail |-> Some([type |-> "OnChange", componentNames |-> <<"b">>]),
      formTypes |-> Some(<<2>>)]}

CallLists == UNION {[1..n -> UpsertArgs] : n \in 0..MaxCalls}

InitCalls ==
    /\ pending \in CallLists
    /\ eventRegistry = EmptyRegistry
    /\ durations = <<>>
    /\ warningCounts = <<>>
    /\ run = NoRun
    /\ calls = <<>>
    /\ emitted = <<>>
    /\ lastEvent = NoEvent
    /\ invoked = <<>>
    /\ done = <<>>

\* the next call of the list: upsertFunctionEvent for method m1 of class A
CallUpsert ==
    /\ pending # <<>>
    /\ \E e \in Elapsed :
        /\ eventRegistry' = upsertFunctionEvent(eventRegistry, "A", "m1",
                                                Head(pending).eventDetail, Head(pending).formTypes)
        /\ durations' = record(durations, e)
    /\ done' = Append(done, Head(pending))
    /\ pending' = Tail(pending)
    /\ UNCHANGED <<warningCounts, run, calls, emitted, lastEvent, invoked>>

NextCalls == CallUpsert

SpecCalls == InitCalls /\ [][NextCalls]_vars

----------------------------------------------------------------------------
(* SpecRuns: dispatch runs that may throw.  Class A is given a form-level  *)
(* binding, a column binding, a form type filter, or an entry with neither *)
(* events nor filter; instances of A and of a class B may lack m2 or hold  *)
(* something under m2 that is not a function; the event context may yield  *)
(* no form.                                                                *)

RunClasses == {"A", "B"}

RunUpsertArgs ==
    {upsertSimpleEvent("OnLoad"),
     upsertComponentEvent("OnChange", <<"a">>),
     FilterFormTypes(<<1>>),
     [eventDetail |-> Undefined, formTypes |-> Undefined]}

RunInstances ==
    {[constructor |-> c, members |-> m.members, functions |-> m.functions] :
        c \in RunClasses,
        m \in {[members |-> {"m1", "m2"}, functions |-> {"m1", "m2"}],
               [members |-> {"m1"}, functions |-> {"m1"}],
               [members |-> {"m1", "m2"}, functions |-> {"m1"}]}}

\* the form holds the column a, or nothing, or the context yields no form
ExecutionContexts ==
    {Some([n \in {"a"} |-> "attribute"]), Some([n \in {} |-> "attribute"]), Undefined}

RunFormTypes == {1, 2}

UpsertRunStep ==
    \E fn \in Methods, x \in RunUpsertArgs, e \in Elapsed :
        Upsert("A", fn, x.eventDetail, x.formTypes, e)

ApplyRunStep ==
    \E i \in RunInstances, x \in ExecutionContexts, t \in RunFormTypes : Apply(i, x, t)

NextRuns == UpsertRunStep \/ ApplyRunStep \/ FormClosed

SpecRuns == Init /\ [][NextRuns]_vars

----------------------------------------------------------------------------
(* SpecKinds: the method m1 of class A is decorated with decorators of     *)
(* every namespace of D365Event, in any order; the form holds a component  *)
(* of every type and the control p named by an iframe binding is a PCF     *)
(* control.                                                                *)

KindDecorators ==
    Form \cup Tab("t", <<>>) \cup Column("a", <<>>) \cup Column("b", <<"a">>)
    \cup Lookup("l", <<>>) \cup SubGrid("g", <<>>) \cup IFrame("f", <<"p">>)
    \cup Process \cup PCF("p", <<>>) \cup KnowledgeBaseSearch("k", <<>>)
    \cup {FilterFormTypes(<<1>>)}

KindInstance == [constructor |-> "A", members |-> {"m1"}, functions |-> {"m1"}]

KindForm ==
    [n \in {"t", "a", "b", "l", "g", "f", "p", "k"} |->
        CASE n = "t" -> "tab"
          [] n \in {"a", "b"} -> "attribute"
          [] n = "l" -> "lookup"
          [] n = "g" -> "grid"
          [] n = "f" -> "iframe"
          [] n = "p" -> "standard"
          [] n = "k" -> "kbsearch"]

UpsertKindStep ==
    \E d \in KindDecorators, e \in Elapsed : Upsert("A", "m1", d.eventDetail, d.formTypes, e)

ApplyKindStep == Apply(KindInstance, Some(KindForm), 1)

NextKinds == UpsertKindStep \/ ApplyKindStep \/ FormClosed

SpecKinds == Init /\ [][NextKinds]_vars

----------------------------------------------------------------------------
(* SpecQueue: the methods m1, m2 and m3 of class A get a column binding or *)
(* a form type filter, between runs too; the form holds the column a or    *)
(* not, and the instance may hold something under m2 that is not a         *)
(* function, so that a run may throw after it queued a warning.            *)

Methods3 == {"m1", "m2", "m3"}

QueueUpsertArgs == Column("a", <<>>) \cup {FilterFormTypes(<<1>>)}

QueueInstances ==
    {[constructor |-> "A", members |-> m.members, functions |-> m.functions] :
        m \in {[members |-> Methods3, functions |-> Methods3],
               [members |-> Methods3, functions |-> {"m1", "m3"}]}}

QueueForms == {[n \in {"a"} |-> "attribute"], [n \in {} |-> "attribute"]}

UpsertQueueStep ==
    \E fn \in Methods3, x \in QueueUpsertArgs, e \in Elapsed :
        Upsert("A", fn, x.eventDetail, x.formTypes, e)

ApplyQueueStep ==
    \E i \in QueueInstances, f \in QueueForms : Apply(i, Some(f), 1)

NextQueue == UpsertQueueStep \/ ApplyQueueStep \/ FormClosed

SpecQueue == Init /\ [][NextQueue]_vars

----------------------------------------------------------------------------
(* SpecLife: the onLoad script of a form constructs a handler of class A;  *)
(* the form reports its form type, the two marks read a clock that never   *)
(* goes back; the instance may hold something under m2 that is not a       *)
(* function and the event context may yield no form.                       *)

Uis == {[formType |-> t] : t \in RunFormTypes}

Times == {0, 1}

LifeInstances == {i \in RunInstances : i.constructor = "A"}

ConstructStep ==
    \E i \in LifeInstances, x \in ExecutionContexts, ui \in Uis, t0 \in Times, t1 \in Times :
        Construct(i, x, ui, t0, t1)

NextLife == UpsertRunStep \/ ConstructStep \/ FormClosed

SpecLife == Init /\ [][NextLife]_vars

----------------------------------------------------------------------------
(* SpecTiming: a list of calls drawn at the start and made one by one:     *)
(* upsertFunctionEvent for a method of class A, which takes some time, or  *)
(* DecoratorProfiler.total(), whose result goes to the console.            *)

Durations == {0, 1, 2}

TimingCalls ==
    {[op |-> "upsertFunctionEvent", functionName |-> "m1",
      args |-> upsertSimpleEvent("OnLoad"), elapsed |-> e] : e \in Durations}
    \cup {[op |-> "total"]}

TimingCallLists == UNION {[1..n -> TimingCalls] : n \in 0..MaxTimingCalls}

InitTiming ==
    /\ pending \in TimingCallLists
    /\ eventRegistry = EmptyRegistry
    /\ durations = <<>>
    /\ warningCounts = <<>>
    /\ run = NoRun
    /\ calls = <<>>
    /\ emitted = <<>>
    /\ lastEvent = NoEvent
    /\ invoked = <<>>
    /\ done = <<>>

\* the next call of the list is upsertFunctionEvent, which ends with
\* DecoratorProfiler.record(end - start)
CallTimedUpsert ==
    /\ pending # <<>>
    /\ Head(pending).op = "upsertFunctionEvent"
    /\ eventRegistry' = upsertFunctionEvent(eventRegistry, "A", Head(pending).functionName,
                                            Head(pending).args.eventDetail,
                                            Head(pending).args.formTypes)
    /\ durations' = record(durations, Head(pending).elapsed)
    /\ done' = Append(done, Head(pending))
    /\ pending' = Tail(pending)
    /\ UNCHANGED <<warningCounts, run, calls, emitted, lastEvent, invoked>>

\* the next call of the list is DecoratorProfiler.total(): the console gets
\* what it returned
CallTotal ==
    /\ pending # <<>>
    /\ Head(pending).op = "total"
    /\ emitted' = Append(emitted, [total |-> total(durations)])
    /\ done' = Append(done, Head(pending))
    /\ pending' = Tail(pending)
    /\ UNCHANGED <<eventRegistry, durations, warningCounts, run, calls, lastEvent, invoked>>

NextTiming == CallTimedUpsert \/ CallTotal

SpecTiming == InitTiming /\ [][NextTiming]_vars

----------------------------------------------------------------------------
(* SpecSteps: FormEventDispatcher.apply statement by statement, on the     *)
(* method m1 of class A with a form-level binding, a column binding, an    *)
(* iframe binding or a form type filter; m1 may be something that is not a *)
(* function and the event context may yield no form.  A call that was      *)
(* entered goes on: the script runs to completion.                         *)

StepUpsertArgs ==
    Form \cup Column("a", <<>>) \cup IFrame("p", <<"q">>) \cup {FilterFormTypes(<<1>>)}

StepInstances ==
    {[constructor |-> "A", members |-> {"m1"}, functions |-> f] : f \in {{"m1"}, {}}}

StepContexts ==
    {Some([n \in {"a", "p"} |-> IF n = "a" THEN "attribute" ELSE "standard"]), Undefined}

UpsertStepsStep ==
    \E x \in StepUpsertArgs, e \in Elapsed : Upsert("A", "m1", x.eventDetail, x.formTypes, e)

BeginApplyStep ==
    \E i \in StepInstances, x \in StepContexts, t \in RunFormTypes : BeginApply(i, x, t)

NextSteps ==
    UpsertStepsStep \/ BeginApplyStep \/ ApplyStatement \/ ApplyFlush \/ FormClosedAfterApply

SpecSteps ==
    Init /\ [][NextSteps]_vars /\ WF_vars(ApplyStatement) /\ WF_vars(ApplyFlush)

----------------------------------------------------------------------------
(* SpecClasses: the methods m1 and m2 of class A and of class B, which     *)
(* extends A, are decorated; the same column decorator value may go to     *)
(* several methods.  Handlers of A and of B, which inherits the methods of *)
(* A, are dispatched on a form with the columns a and b, and asked to log  *)
(* what is registered for them.                                            *)

ClassNames == {"A", "B"}

ClassDecorators ==
    Column("a", <<"b">>) \cup Column("c", <<>>) \cup {upsertSimpleEvent("OnLoad")}
    \cup {FilterFormTypes(<<1>>)}

ClassInstances ==
    {[constructor |-> c, members |-> Methods, functions |-> Methods] : c \in ClassNames}

ClassForm == [n \in {"a", "b"} |-> "attribute"]

UpsertClassStep ==
    \E c \in ClassNames, fn \in Methods, d \in ClassDecorators, e \in Elapsed :
        Upsert(c, fn, d.eventDetail, d.formTypes, e)

ApplyClassStep == \E i \in ClassInstances : Apply(i, Some(ClassForm), 1)

NextClasses == UpsertClassStep \/ ApplyClassStep \/ LogRegisteredFormEvents \/ FormClosed

SpecClasses == Init /\ [][NextClasses]_vars

----------------------------------------------------------------------------
(* SpecEvents: the methods of class A get a save binding, a column binding *)
(* or the form type filter Create; a handler is constructed on a form that *)
(* is in Create or Update, the form changes its form type while it is      *)
(* open, and the host fires save and column change events.                 *)

EventDecorators ==
    {upsertSimpleEvent("OnSave")} \cup Column("a", <<>>) \cup {FilterFormTypes(<<1>>)}

EventInstance == [constructor |-> "A", members |-> Methods, functions |-> Methods]

EventForm == [n \in {"a"} |-> "attribute"]

HostOperations == {"addOnSave", "addOnChange"}

UpsertEventStep ==
    \E fn \in Methods, d \in EventDecorators, e \in Elapsed :
        Upsert("A", fn, d.eventDetail, d.formTypes, e)

ConstructEventStep == \E ui \in Uis : Construct(EventInstance, Some(EventForm), ui, 0, 1)

FormTypeStep == \E t \in RunFormTypes : FormTypeChanged(t)

HostEventStep == \E op \in HostOperations : HostEvent(op, "a")

NextEvents ==
    UpsertEventStep \/ ConstructEventStep \/ FormTypeStep \/ HostEventStep \/ FormClosed

SpecEvents == Init /\ [][NextEvents]_vars

----------------------------------------------------------------------------
(* SpecWarn: a list of calls to the warning aggregator, drawn at the start *)
(* and made one by one: logGroupedWarning with one of two messages, or     *)
(* flushGroupedWarnings.                                                   *)

WarnMessages ==
    {[text |-> "has @FormTypes but no events", constructorName |-> "A",
      plural |-> FALSE, names |-> <<fn>>] : fn \in Methods}

LogCalls ==
    {[op |-> "logGroupedWarning", message |-> m] : m \in WarnMessages}
    \cup {[op |-> "flushGroupedWarnings"]}

LogCallLists == UNION {[1..n -> LogCalls] : n \in 0..MaxLogCalls}

InitWarn ==
    /\ pending \in LogCallLists
    /\ eventRegistry = EmptyRegistry
    /\ durations = <<>>
    /\ warningCounts = <<>>
    /\ run = NoRun
    /\ calls = <<>>
    /\ emitted = <<>>
    /\ lastEvent = NoEvent
    /\ invoked = <<>>
    /\ done = <<>>

\* the next call of the list is logGroupedWarning(message)
CallLogGroupedWarning ==
    /\ pending # <<>>
    /\ Head(pending).op = "logGroupedWarning"
    /\ warningCounts' = logGroupedWarning(warningCounts, Head(pending).message)
    /\ done' = Append(done, Head(pending))
    /\ pending' = Tail(pending)
    /\ UNCHANGED <<eventRegistry, durations, run, calls, emitted, lastEvent, invoked>>

\* the next call of the list is flushGroupedWarnings(): every entry goes to
\* warnMessage, then warningCounts.clear()
CallFlushGroupedWarnings ==
    /\ pending # <<>>
    /\ Head(pending).op = "flushGroupedWarnings"
    /\ emitted' = flushGroupedWarnings(warningCounts)
    /\ warningCounts' = <<>>
    /\ done' = Append(done, Head(pending))
    /\ pending' = Tail(pending)
    /\ UNCHANGED <<eventRegistry, durations, run, calls, lastEvent, invoked>>

NextWarn == CallLogGroupedWarning \/ CallFlushGroupedWarnings

SpecWarn == InitWarn /\ [][NextWarn]_vars

----------------------------------------------------------------------------
(* What the claims speak of *)

\* the subscribe operation of the form that belongs to each event kind
KindOperation ==
    [k \in FormEventTypes |->
        CASE k = "OnDataLoad" -> "addOnDataLoad"
          [] k = "OnLoad" -> "addOnLoad"
          [] k = "Loaded" -> "addLoaded"
          [] k = "OnSave" -> "addOnSave"
          [] k = "OnPostSave" -> "addOnPostSave"
          [] k = "OnProcessStatusChange" -> "addOnProcessStatusChange"
          [] k = "OnPreProcessStatusChange" -> "addOnPreProcessStatusChange"
          [] k = "OnPreStageChange" -> "addOnPreStageChange"
          [] k = "OnStageChange" -> "addOnStageChange"
          [] k = "OnStageSelected" -> "addOnStageSelected"
          [] k = "OnChange" -> "addOnChange"
          [] k = "OnLookupTagClick" -> "addOnLookupTagClick"
          [] k = "PreSearch" -> "addPreSearch"
          [] k = "OnTabStateChange" -> "addTabStateChange"
          [] k = "OnTabExpand" -> "tabControl.addTabStateChange"
          [] k = "OnTabCollapse" -> "tabControl.addTabStateChange"
          [] k = "SubGridOnLoad" -> "addSubGridOnLoad"
          [] k = "SubGridOnRecordSelect" -> "addSubGridOnRecordSelect"
          [] k = "OnReadyStateComplete" -> "addOnReadyStateComplete"
          [] k = "OnOutputChange" -> "addOnOutputChange"
          [] k = "OnResultOpened" -> "addOnResultOpened"
          [] k = "OnSelection" -> "addOnSelection"
          [] k = "PostSearch" -> "addOnPostSearch"]

\* the type of component each Component kind is registered on
KindComponentType ==
    [k \in ComponentEventType |->
        CASE k = "OnChange" -> "attribute"
          [] k \in {"OnLookupTagClick", "PreSearch"} -> "lookup"
          [] k \in {"OnTabStateChange", "OnTabExpand", "OnTabCollapse"} -> "tab"
          [] k \in {"SubGridOnLoad", "SubGridOnRecordSelect"} -> "grid"
          [] k = "OnReadyStateComplete" -> "iframe"
          [] k = "OnOutputChange" -> "standard"
          [] k \in {"OnResultOpened", "OnSelection", "PostSearch"} -> "kbsearch"]

Applied == run.status = "applied"

\* the MethodBindings of the class of the dispatched instance
Handlers == getFormEvents(eventRegistry, run.instance.constructor)

\* the form type filter of h is set, non-empty and lacks the current form type
Blocked(h) ==
    /\ IsDefined(h.formTypes)
    /\ ValueOf(h.formTypes) # <<>>
    /\ run.formType \notin Range(ValueOf(h.formTypes))

Callable(h) == h.functionName \in run.instance.members

\* name is a component of the form that passes the type predicate of kind
Resolves(name, kind) ==
    /\ name \in DOMAIN run.formContext
    /\ run.formContext[name] = KindComponentType[kind]

ItemNames(call) == {call.items[k].name : k \in 1..Len(call.items)}

\* the calls of the run that registered functionName
CallsFor(functionName) ==
    {k \in 1..Len(calls) : calls[k].handler.functionName = functionName}

\* the Component bindings of the run whose method passes the filter and is
\* a member of the instance, as <<MethodBinding, EventBinding>>
ComponentBindings ==
    {<<Handlers[i], Handlers[i].events[j]>> :
        <<i, j>> \in {p \in (1..Len(Handlers)) \X (1..3) :
                        /\ p[2] <= Len(Handlers[p[1]].events)
                        /\ isComponentEventDetail(Handlers[p[1]].events[p[2]])
                        /\ ~Blocked(Handlers[p[1]])
                        /\ Callable(Handlers[p[1]])}}

\* the emitted unresolved-component diagnostics of a binding
DiagnosticsOf(functionName, kind) ==
    {k \in 1..Len(emitted) :
        /\ emitted[k].msg.text = "not found or not applicable for event"
        /\ emitted[k].msg.functionName = functionName
        /\ emitted[k].msg.eventType = kind}

\* the listeners of EventBinding e of method functionName are registered
ListenerRegistered(functionName, e) ==
    \E k \in CallsFor(functionName) :
        /\ calls[k].register = KindOperation[e.type]
        /\ isComponentEventDetail(e) =>
               \A n \in Range(e.componentNames) :
                   Resolves(n, e.type) => n \in ItemNames(calls[k])

\* C1: the form type filter is an allow-list: a method whose filter is
\* non-empty and lacks the current form type gets no listener of any kind;
\* a method whose filter is absent, empty or holds the current form type
\* gets the listeners of all its bindings.
C1_ModeFilterAllowList ==
    Applied =>
        \A i \in 1..Len(Handlers) :
            LET h == Handlers[i]
            IN  /\ Blocked(h) => CallsFor(h.functionName) = {}
                /\ (~Blocked(h) /\ Callable(h)) =>
                       \A j \in 1..Len(h.events) : ListenerRegistered(h.functionName, h.events[j])

\* C2: a method bound to OnOutputChange, allowed by its filter and a member
\* of the instance, is registered through addOnOutputChange against exactly
\* the named controls that resolve to standard controls.
C2_OutputChangeRegistered ==
    Applied =>
        \A b \in ComponentBindings :
            b[2].type = "OnOutputChange" =>
                \E k \in CallsFor(b[1].functionName) :
                    /\ calls[k].register = "addOnOutputChange"
                    /\ ItemNames(calls[k]) =
                           {n \in Range(b[2].componentNames) : Resolves(n, "OnOutputChange")}

\* C3: every registration call a binding of kind K causes goes through the
\* operation of K, and each Component binding is registered through exactly
\* that one operation.
C3_KindAppropriateRegistration ==
    Applied =>
        /\ \A k \in 1..Len(calls) : calls[k].register = KindOperation[calls[k].eventType]
        /\ \A b \in ComponentBindings :
               {calls[k].register : k \in {c \in CallsFor(b[1].functionName) :
                                             calls[c].eventType = b[2].type}}
                   = {KindOperation[b[2].type]}

\* C4: the requested names of every Component binding are partitioned: a
\* name is registered iff it resolves to a component of the kind's type, and
\* is named in a diagnostic of the binding iff it does not.
C4_NamesPartitioned ==
    Applied =>
        \A b \in ComponentBindings :
            \A n \in Range(b[2].componentNames) :
                LET registered == \E k \in CallsFor(b[1].functionName) :
                                      calls[k].eventType = b[2].type /\ n \in ItemNames(calls[k])
                    diagnosed == \E k \in DiagnosticsOf(b[1].functionName, b[2].type) :
                                      n \in Range(emitted[k].msg.names)
                IN  /\ registered <=> Resolves(n, b[2].type)
                    /\ diagnosed <=> ~Resolves(n, b[2].type)

\* C5: a binding with at least one unresolved name produces exactly one
\* diagnostic, which lists all its unresolved names and is queued once.
C5_OneDiagnosticPerBinding ==
    Applied =>
        \A b \in ComponentBindings :
            (\E n \in Range(b[2].componentNames) : ~Resolves(n, b[2].type)) =>
                /\ Cardinality(DiagnosticsOf(b[1].functionName, b[2].type)) = 1
                /\ \A k \in DiagnosticsOf(b[1].functionName, b[2].type) :
                       /\ emitted[k].prefix = <<>>
                       /\ Range(emitted[k].msg.names) =
                              {n \in Range(b[2].componentNames) : ~Resolves(n, b[2].type)}

\* C7: a method with a binding of a Global kind and no form type filter is
\* subscribed through the form-level operation of that kind exactly once per
\* run, whatever the form type and however often the kind was declared; a
\* method bound to OnLoad only gets that one subscription and no other.
C7_GlobalDispatchOnce ==
    Applied =>
        \A i \in 1..Len(Handlers) :
            LET h == Handlers[i]
            IN  (~IsDefined(h.formTypes) /\ Callable(h)) =>
                    /\ \A j \in 1..Len(h.events) :
                           h.events[j].type \in GlobalEventType =>
                               Cardinality({k \in CallsFor(h.functionName) :
                                   calls[k].register = KindOperation[h.events[j].type]}) = 1
                    /\ h.events = <<[type |-> "OnLoad"]>> =>
                           {calls[k].register : k \in CallsFor(h.functionName)} = {"addOnLoad"}
                           /\ Cardinality(CallsFor(h.functionName)) = 1

\* OnLoad was declared twice for m1 and nothing else: on a ReadOnly form the
\* run made its one addOnLoad call
C7_Witness ==
    /\ Applied
    /\ run.formType = 3
    /\ Len(durations) = 2
    /\ Handlers = <<[events |-> <<[type |-> "OnLoad"]>>, functionName |-> "m1",
                     formTypes |-> Undefined]>>
    /\ Len(calls) = 1
    /\ calls[1].register = "addOnLoad"

----------------------------------------------------------------------------
(* Tab events *)

Delivered == lastEvent.status = "delivered"

\* the display state a tab-expand / tab-collapse binding waits for
TargetState(kind) == IF kind = "OnTabExpand" THEN "expanded" ELSE "collapsed"

SourceIn(state) == lastEvent.source.present /\ lastEvent.source.displayState = state

\* the expand / collapse bindings of the run that name the tab of the last event
TabSpecificBindings ==
    {b \in ComponentBindings :
        /\ b[2].type \in {"OnTabExpand", "OnTabCollapse"}
        /\ lastEvent.tab \in Range(b[2].componentNames)}

InvokedMethods == {invoked[k].functionName : k \in 1..Len(invoked)}

\* the event kinds through whose listeners the last event invoked functionName
InvokedThrough(functionName) ==
    {invoked[k].eventType : k \in {x \in 1..Len(invoked) : invoked[x].functionName = functionName}}

\* the tab event kinds a method declares for the tab of the last event
TabKindsOf(h) ==
    {h.events[j].type : j \in {x \in 1..Len(h.events) :
        /\ isComponentEventDetail(h.events[x])
        /\ lastEvent.tab \in Range(h.events[x].componentNames)}}

\* C6 as stated: a method bound to tab-expand (tab-collapse) on a resolved
\* tab is invoked by a state-change event of that tab iff the event source's
\* display state is "expanded" ("collapsed"), never for the opposite state.
C6_MethodInvokedIffTargetState ==
    Delivered =>
        \A b \in TabSpecificBindings :
            b[1].functionName \in InvokedMethods <=> SourceIn(TargetState(b[2].type))

\* C6 amended: the tab-expand (tab-collapse) binding of a method forwards a
\* state-change event of its tab iff the event source's display state is
\* "expanded" ("collapsed"); a method with no other tab binding on that tab
\* is invoked iff so, and never for the opposite state.
C6_ExpandCollapseGating ==
    Delivered =>
        \A b \in TabSpecificBindings :
            /\ b[2].type \in InvokedThrough(b[1].functionName)
                   <=> SourceIn(TargetState(b[2].type))
            /\ TabKindsOf(b[1]) = {b[2].type} =>
                   (b[1].functionName \in InvokedMethods <=> SourceIn(TargetState(b[2].type)))

\* m1 is bound to tab-expand on t only: an event of t whose source is
\* collapsed has invoked nothing
C6_Witness ==
    /\ Delivered
    /\ Handlers = <<[events |-> <<[type |-> "OnTabExpand", componentNames |-> <<"t">>]>>,
                     functionName |-> "m1", formTypes |-> Undefined]>>
    /\ Len(calls) = 1
    /\ SourceIn("collapsed")
    /\ invoked = <<>>

----------------------------------------------------------------------------
(* The registry under lists of calls *)

\* the registry after the calls of a list, made in order from an empty registry
RECURSIVE Replay(_)
Replay(list) ==
    IF list = <<>> THEN EmptyRegistry
    ELSE upsertFunctionEvent(Replay(SubSeq(list, 1, Len(list) - 1)), "A", "m1",
                             list[Len(list)].eventDetail, list[Len(list)].formTypes)

Orderings(n) == {p \in [1..n -> 1..n] : \A i, j \in 1..n : p[i] = p[j] => i = j}

\* the MethodBinding of method m1 of class A, none as the empty tuple
BindingOf(registry) ==
    LET formEvents == getFormEvents(registry, "A")
        i == FirstTrue([k \in 1..Len(formEvents) |-> formEvents[k].functionName = "m1"])
    IN  IF i = 0 THEN <<>> ELSE <<formEvents[i]>>

KindsOf(h) == {h.events[j].type : j \in 1..Len(h.events)}

NamesOf(h, kind) ==
    UNION {Range(h.events[j].componentNames) :
              j \in {x \in 1..Len(h.events) :
                       h.events[x].type = kind /\ isComponentEventDetail(h.events[x])}}

FilterOf(h) == IF IsDefined(h.formTypes) THEN Range(ValueOf(h.formTypes)) ELSE {}

\* two registries hold the same binding for m1: same kinds, same names per
\* kind and same form type filter, all as sets
SameBinding(r1, r2) ==
    LET b1 == BindingOf(r1)
        b2 == BindingOf(r2)
    IN  /\ Len(b1) = Len(b2)
        /\ b1 # <<>> =>
            /\ KindsOf(b1[1]) = KindsOf(b2[1])
            /\ \A k \in KindsOf(b1[1]) : NamesOf(b1[1], k) = NamesOf(b2[1], k)
            /\ FilterOf(b1[1]) = FilterOf(b2[1])
            /\ IsDefined(b1[1].formTypes) = IsDefined(b2[1].formTypes)

\* C8: from any registry state, upsert with the same arguments twice in a
\* row leaves the registry as one such call leaves it: for every argument
\* that could come next, and for the last call made when it repeats the one
\* before it.
C8_MergeIdempotence ==
    /\ \A x \in UpsertArgs, fn \in Methods :
           LET once == upsertFunctionEvent(eventRegistry, "A", fn, x.eventDetail, x.formTypes)
           IN  upsertFunctionEvent(once, "A", fn, x.eventDetail, x.formTypes) = once
    /\ (Len(done) >= 2 /\ done[Len(done)] = done[Len(done) - 1]) =>
           eventRegistry = Replay(SubSeq(done, 1, Len(done) - 1))

\* names b, a were merged into a, and the same call was made again
C8_Witness ==
    /\ Len(done) = 3
    /\ done[1] = upsertComponentEvent("OnChange", <<"a">>)
    /\ done[2] = upsertComponentEvent("OnChange", <<"b", "a">>)
    /\ done[3] = done[2]
    /\ BindingOf(eventRegistry) =
           <<[events |-> <<[type |-> "OnChange", componentNames |-> <<"a", "b">>]>>,
              functionName |-> "m1", formTypes |-> Undefined]>>

\* C9: the calls made so far, made in any other order, yield a binding with
\* the same kinds, the same names per kind and the same form type filter.
C9_OrderIndependence ==
    \A p \in Orderings(Len(done)) :
        SameBinding(Replay([i \in 1..Len(done) |-> done[p[i]]]), eventRegistry)

\* the form-type-only call came first, then two different name lists of one kind
C9_Witness ==
    /\ done = <<FilterFormTypes(<<1, 2>>),
                upsertComponentEvent("OnChange", <<"b">>),
                upsertComponentEvent("OnChange", <<"a", "b">>)>>
    /\ pending = <<>>
    /\ BindingOf(eventRegistry) =
           <<[events |-> <<[type |-> "OnChange", componentNames |-> <<"b", "a">>]>>,
              functionName |-> "m1", formTypes |-> Some(<<1, 2>>)]>>

\* C10: after any sequence of upsert calls no component-name list and no
\* form type filter of the registry holds a value twice.
C10_NamesAndFormTypesUnique ==
    \A c \in DOMAIN eventRegistry :
        \A i \in 1..Len(eventRegistry[c]) :
            LET h == eventRegistry[c][i]
            IN  /\ IsDefined(h.formTypes) => NoDuplicates(ValueOf(h.formTypes))
                /\ \A j \in 1..Len(h.events) :
                       isComponentEventDetail(h.events[j]) =>
                           NoDuplicates(h.events[j].componentNames)

----------------------------------------------------------------------------
(* Registry invariants *)

\* C11: in every registry state each class has at most one MethodBinding
\* per method name.
C11_OneBindingPerMethod ==
    \A c \in DOMAIN eventRegistry :
        NoDuplicates([i \in 1..Len(eventRegistry[c]) |-> eventRegistry[c][i].functionName])

\* three decorators were applied, two of them on the same method
C11_Witness ==
    /\ Len(durations) = 3
    /\ "A" \in DOMAIN eventRegistry
    /\ Len(eventRegistry["A"]) = 2
    /\ \E i \in 1..2 : Len(eventRegistry["A"][i].events) = 2

\* C12: in every registry state each MethodBinding holds at most one
\* EventBinding per event kind.
C12_OneEventPerKind ==
    \A c \in DOMAIN eventRegistry :
        \A i \in 1..Len(eventRegistry[c]) :
            LET events == eventRegistry[c][i].events
            IN  NoDuplicates([j \in 1..Len(events) |-> events[j].type])

\* the kind OnChange was declared three times for m1 and is held once
C12_Witness ==
    /\ Len(done) = 3
    /\ \A i \in 1..3 : IsDefined(done[i].eventDetail)
                          /\ ValueOf(done[i].eventDetail).type = "OnChange"
    /\ BindingOf(eventRegistry) # <<>>
    /\ Len(BindingOf(eventRegistry)[1].events) = 1

\* the names a registry holds for a kind of method m1 of class A
NamesIn(registry, kind) ==
    IF BindingOf(registry) = <<>> THEN {} ELSE NamesOf(BindingOf(registry)[1], kind)

\* C13: for every Component kind the names held after an upsert call are a
\* superset of the names held before it.
C13_NamesMonotone ==
    [][\A kind \in ComponentEventType :
           NamesIn(eventRegistry, kind) \subseteq NamesIn(eventRegistry', kind)]_vars

\* a second name list of the kind OnChange was merged into the first
C13_Witness ==
    /\ done = <<upsertComponentEvent("OnChange", <<"a">>),
                upsertComponentEvent("OnTabExpand", <<"a">>),
                upsertComponentEvent("OnChange", <<"b">>)>>
    /\ NamesIn(eventRegistry, "OnChange") = {"a", "b"}
    /\ NamesIn(eventRegistry, "OnTabExpand") = {"a"}

\* C14: once the MethodBinding has a form type filter, an upsert that
\* gives form types leaves the union of the filter and the given form
\* types, and an upsert that gives none leaves the filter as it was.
C14_FilterMonotone ==
    [][LET before == BindingOf(eventRegistry)
           after == BindingOf(eventRegistry')
           given == Head(pending).formTypes
       IN  (before # <<>> /\ IsDefined(before[1].formTypes)) =>
               /\ after # <<>>
               /\ IsDefined(after[1].formTypes)
               /\ IF IsDefined(given)
                  THEN FilterOf(after[1]) = FilterOf(before[1]) \cup Range(ValueOf(given))
                  ELSE after[1].formTypes = before[1].formTypes]_vars

\* the filter 1 was set, grew by 2, and a call without form types left it
C14_Witness ==
    /\ done = <<FilterFormTypes(<<1>>), FilterFormTypes(<<2>>),
                upsertComponentEvent("OnChange", <<"a">>)>>
    /\ BindingOf(eventRegistry) # <<>>
    /\ BindingOf(eventRegistry)[1].formTypes = Some(<<1, 2>>)

----------------------------------------------------------------------------
(* The warning aggregator under lists of calls *)

\* the last call made was a flush
JustFlushed == done # <<>> /\ done[Len(done)].op = "flushGroupedWarnings"

\* the messages queued between the flush before the last call and the last
\* call, in the order they were queued
QueuedBeforeLast ==
    LET n == Len(done)
        flushes == {i \in 1..(n - 1) : done[i].op = "flushGroupedWarnings"}
        from == IF flushes = {} THEN 1
                ELSE 1 + CHOOSE i \in flushes : \A j \in flushes : j <= i
    IN  [k \in 1..(n - from) |-> done[from + k - 1].message]

Occurrences(seq, x) == Cardinality({i \in 1..Len(seq) : seq[i] = x})

\* C15: a flush emits exactly one line per distinct message queued since
\* the flush before it; the line carries the marker (nx) with the number n
\* of times the message was queued iff n > 1, and no marker when n = 1.
C15_WarningBatching ==
    JustFlushed =>
        /\ \A m \in WarnMessages :
               Cardinality({i \in 1..Len(emitted) : emitted[i].msg = m})
                   = IF Includes(QueuedBeforeLast, m) THEN 1 ELSE 0
        /\ \A i \in 1..Len(emitted) :
               LET n == Occurrences(QueuedBeforeLast, emitted[i].msg)
               IN  /\ n > 1 => emitted[i].prefix = <<"(", n, "x)">>
                   /\ n = 1 => emitted[i].prefix = <<>>

\* after an earlier flush, one message was queued twice and the other once
C15_Witness ==
    /\ JustFlushed
    /\ Len(done) = 5
    /\ done[1].op = "flushGroupedWarnings"
    /\ Len(emitted) = 2
    /\ emitted[1].prefix = <<"(", 2, "x)">>
    /\ emitted[2].prefix = <<>>

----------------------------------------------------------------------------
(* Dispatch runs: what a run did, and what earlier runs left behind *)

\* a run was made on the form at hand, whether it returned or threw
Ran == run # NoRun

\* the run obtained a form context from its event context
GotForm == Ran /\ IsDefined(run.executionContext)

\* the instance holds a function under the method name of h
HasFunction(h) == h.functionName \in run.instance.functions

\* the messages of the "has @FormTypes but no events" kind the run queued
ValidationWarnings ==
    {k \in 1..Len(run.warnings) : run.warnings[k].text = "has @FormTypes but no events"}

\* the run queued the validation diagnostic naming method functionName
ValidationNames(functionName) ==
    \E k \in ValidationWarnings : Includes(run.warnings[k].names, functionName)

\* the binding diagnostics the run queued for method functionName
BindingWarnings(functionName) ==
    {k \in 1..Len(run.warnings) :
        /\ run.warnings[k].text = "not found or not applicable for event"
        /\ run.warnings[k].functionName = functionName}

\* every form-level binding of a method that passes the filter and is a
\* function of the instance was registered
GlobalBindingsRegistered ==
    \A i \in 1..Len(Handlers) :
        LET h == Handlers[i]
        IN  \A j \in 1..Len(h.events) :
                (h.events[j].type \in GlobalEventType /\ ~Blocked(h) /\ HasFunction(h)) =>
                    \E k \in CallsFor(h.functionName) : calls[k].eventType = h.events[j].type

\* C16: get on a class that was never the target of upsert returns the
\* empty collection, and a run on an instance of such a class makes no
\* registration call and emits no diagnostic, whatever earlier runs did.
C16_NoEntriesSafety ==
    /\ \A c \in RunClasses :
           c \notin DOMAIN eventRegistry => getFormEvents(eventRegistry, c) = <<>>
    /\ (Ran /\ run.instance.constructor \notin DOMAIN eventRegistry) =>
           /\ calls = <<>>
           /\ emitted = <<>>

\* C17: a run queues the "has @FormTypes but no events" diagnostic naming
\* a method exactly when the method's MethodBinding has a form type filter
\* and no events, and a run that queued it and got its form still
\* registered the bindings of the other methods.
C17_FilterWithoutEventsValidation ==
    Ran =>
        /\ \A i \in 1..Len(Handlers) :
               ValidationNames(Handlers[i].functionName)
                   <=> (IsDefined(Handlers[i].formTypes) /\ Handlers[i].events = <<>>)
        /\ (ValidationWarnings # {} /\ GotForm
                /\ run.instance.functions = run.instance.members) =>
               GlobalBindingsRegistered

\* C18: a MethodBinding whose method name is no function of the instance
\* (absent, or there but not callable) gets no listener and no binding
\* diagnostic, the run that got its form does not throw, and the bindings
\* of the other methods are registered.
C18_MissingMethodSkipped ==
    GotForm =>
        /\ run.status = "applied"
        /\ \A i \in 1..Len(Handlers) :
               ~HasFunction(Handlers[i]) =>
                   /\ CallsFor(Handlers[i].functionName) = {}
                   /\ BindingWarnings(Handlers[i].functionName) = {}
        /\ GlobalBindingsRegistered

\* C19: a run that completes performed exactly one flush, after its last
\* registration call, and leaves the warning queue empty.
C19_OneFlushAtEnd ==
    (Ran /\ run.status = "applied") =>
        /\ Occurrences(run.log, "flushGroupedWarnings") = 1
        /\ run.log[Len(run.log)] = "flushGroupedWarnings"
        /\ Len(run.log) = Len(calls) + 1
        /\ warningCounts = <<>>

\* the run registered a listener, queued a warning and flushed it
C19_Witness ==
    /\ Ran
    /\ run.status = "applied"
    /\ Len(calls) >= 1
    /\ Len(run.warnings) >= 2
    /\ Len(emitted) >= 2

\* C20: the flush of a run emits the diagnostics queued during that run,
\* each counted as often as that run queued it, and none queued during an
\* earlier run.
C20_DiagnosticsPerRun ==
    (Ran /\ run.status = "applied") =>
        emitted = flushGroupedWarnings(logAll(<<>>, run.warnings))

----------------------------------------------------------------------------
(* C21..C30 *)

\* the constructor went through: it did not throw
HandlerConstructed == run # NoRun /\ run.status = "applied"

\* the positions of step in the constructor's trace
PositionsOf(step) == {k \in 1..Len(run.lifecycle) : run.lifecycle[k] = step}

\* C21: a constructed handler went through FormEventDispatcher.apply exactly
\* once, with the form type its form reported at construction; the start
\* mark was taken before that call and the end mark after it, so both
\* timestamps are recorded and start is not later than end.  A constructor
\* that throws has called apply at most once and recorded no end.
C21_ConstructorLifecycle ==
    run # NoRun =>
        /\ Cardinality(PositionsOf("FormEventDispatcher.apply")) <= 1
        /\ GotForm <=> PositionsOf("FormEventDispatcher.apply") # {}
        /\ GotForm => run.formType = run.ui.formType
        /\ HandlerConstructed =>
            /\ \E a \in PositionsOf("FormEventDispatcher.apply") :
                /\ PositionsOf("markFormEventStarted") = {a - 1}
                /\ PositionsOf("markFormEventApplied") = {a + 1}
            /\ IsDefined(run.decoratorProfiling.start)
            /\ IsDefined(run.decoratorProfiling.end)
            /\ ValueOf(run.decoratorProfiling.start) <= ValueOf(run.decoratorProfiling.end)
        /\ ~HandlerConstructed => ~IsDefined(run.decoratorProfiling.end)

\* a handler constructed on a form of type 2 whose bindings were registered
C21_Witness ==
    /\ HandlerConstructed
    /\ run.ui.formType = 2
    /\ calls # <<>>
    /\ ValueOf(run.decoratorProfiling.start) < ValueOf(run.decoratorProfiling.end)

\* the family of each event kind, numbered in the order Load, Save, Tab,
\* Change, Lookup, SubGrid, IFrame, Process, Output-change, Knowledge-base
Family(k) ==
    CASE k \in {"OnDataLoad", "OnLoad", "Loaded"} -> 1
      [] k \in {"OnSave", "OnPostSave"} -> 2
      [] k \in {"OnTabStateChange", "OnTabExpand", "OnTabCollapse"} -> 3
      [] k = "OnChange" -> 4
      [] k \in {"OnLookupTagClick", "PreSearch"} -> 5
      [] k \in {"SubGridOnLoad", "SubGridOnRecordSelect"} -> 6
      [] k = "OnReadyStateComplete" -> 7
      [] k \in {"OnProcessStatusChange", "OnPreProcessStatusChange", "OnPreStageChange",
                "OnStageChange", "OnStageSelected"} -> 8
      [] k = "OnOutputChange" -> 9
      [] k \in {"OnResultOpened", "OnSelection", "PostSearch"} -> 10

EventBindings ==
    UNION {UNION {Range(eventRegistry[c][i].events) : i \in 1..Len(eventRegistry[c])} :
            c \in DOMAIN eventRegistry}

\* C23: after any sequence of decorator applications every EventBinding of
\* the registry has no component names iff its kind is one of the 10 Global
\* kinds and has a non-empty list of component names iff its kind is one of
\* the 13 Component kinds; every event kind is in exactly one of the two
\* families.
C23_BindingShape ==
    /\ \A e \in EventBindings :
        /\ ~isComponentEventDetail(e) <=> e.type \in GlobalEventType
        /\ (isComponentEventDetail(e) /\ e.componentNames # <<>>) <=> e.type \in ComponentEventType
    /\ Cardinality(GlobalEventType) = 10
    /\ Cardinality(ComponentEventType) = 13
    /\ \A k \in FormEventTypes : (k \in GlobalEventType) # (k \in ComponentEventType)

\* a method bound to a Global kind and to a Component kind whose names were
\* merged from two decorators
C23_Witness ==
    \E e1 \in EventBindings, e2 \in EventBindings :
        /\ e1.type \in GlobalEventType
        /\ e2.type \in ComponentEventType
        /\ Len(e2.componentNames) = 2
        /\ Len(durations) = 3

\* the operations the run called for bindings of kind k
OperationsOf(k) == {calls[i].register : i \in {j \in 1..Len(calls) : calls[j].eventType = k}}

\* the kinds the method bindings of the run declare and the filter lets pass
DeclaredKinds ==
    UNION {{e.type : e \in Range(Handlers[i].events)} :
            i \in {j \in 1..Len(Handlers) : ~Blocked(Handlers[j]) /\ Callable(Handlers[j])}}

\* C24: each Global kind is registered through its own form-level subscribe
\* operation: a run that finds a binding of a Global kind calls exactly one
\* operation for it, always the same one, no other Global kind is registered
\* through that operation and no Component kind either.
C24_GlobalKindOperations ==
    Applied =>
        /\ \A k \in GlobalEventType \cap DeclaredKinds : OperationsOf(k) = {KindOperation[k]}
        /\ \A k \in GlobalEventType \ DeclaredKinds : OperationsOf(k) = {}
        /\ \A k1 \in GlobalEventType, k2 \in FormEventTypes :
            k1 # k2 => OperationsOf(k1) \cap OperationsOf(k2) = {}

\* a run that registered OnSave, OnPostSave and a Process kind
C24_Witness ==
    /\ Applied
    /\ {calls[i].eventType : i \in 1..Len(calls)} \cap {"OnSave", "OnPostSave"} = {"OnSave", "OnPostSave"}
    /\ \E i \in 1..Len(calls) : Family(calls[i].eventType) = 8
    /\ Len(calls) = 3

\* the elements of seq in the order of their first occurrence
RECURSIVE FirstOccurrences(_)
FirstOccurrences(seq) ==
    IF seq = <<>> THEN <<>>
    ELSE LET front == FirstOccurrences(SubSeq(seq, 1, Len(seq) - 1))
             last == seq[Len(seq)]
         IN  IF Includes(front, last) THEN front ELSE Append(front, last)

\* the messages of the lines a flush emitted, in order
MessagesOf(lines) == [k \in 1..Len(lines) |-> lines[k].msg]

\* the messages of the entries of the queue, in order
QueuedMessages(counts) == [k \in 1..Len(counts) |-> counts[k].msg]

\* in lines, the filter-without-events diagnostics come before every
\* diagnostic about unresolved components
ValidationFirst(lines) ==
    \A i \in 1..Len(lines), j \in 1..Len(lines) :
        (/\ lines[i].msg.text = "has @FormTypes but no events"
         /\ lines[j].msg.text = "not found or not applicable for event") => i < j

\* C25: the flush at the end of an apply run emits the distinct messages
\* queued since the flush before it in the order in which each was first
\* queued, a message queued again keeping its place; and in what the run
\* emits, the filter-without-events diagnostic comes before every
\* unresolved-component diagnostic.
C25_EmissionOrder ==
    [][(run = NoRun /\ run' # NoRun /\ run'.status = "applied") =>
            /\ MessagesOf(emitted') =
                   FirstOccurrences(QueuedMessages(warningCounts) \o run'.warnings)
            /\ ValidationFirst(emitted')]_vars

\* the EventBinding of kind in the MethodBinding h, none as the empty tuple
EventOf(h, kind) == SelectSeq(h.events, LAMBDA e : e.type = kind)

\* existing in its order, then the values of incoming that are not in it,
\* each once, in the order of their first appearance
MergedInOrder(existing, incoming) ==
    existing \o FirstOccurrences(SelectSeq(incoming, LAMBDA x : ~Includes(existing, x)))

\* C26: an upsert that merges names into an EventBinding of the same kind
\* leaves the existing names in their order followed by the new names that
\* were not present, in the order of their first appearance in the incoming
\* list; an upsert that merges form types into a MethodBinding leaves its
\* form types in the same way.
C26_MergeOrder ==
    [][LET before == BindingOf(eventRegistry)
           after == BindingOf(eventRegistry')
           eventDetail == Head(pending).eventDetail
           formTypes == Head(pending).formTypes
       IN  before # <<>> =>
               /\ (/\ IsDefined(eventDetail)
                   /\ isComponentEventDetail(ValueOf(eventDetail))
                   /\ EventOf(before[1], ValueOf(eventDetail).type) # <<>>
                   /\ isComponentEventDetail(EventOf(before[1], ValueOf(eventDetail).type)[1]))
                  => EventOf(after[1], ValueOf(eventDetail).type)[1].componentNames =
                        MergedInOrder(
                            EventOf(before[1], ValueOf(eventDetail).type)[1].componentNames,
                            ValueOf(eventDetail).componentNames)
               /\ IsDefined(formTypes)
                  => after[1].formTypes =
                        Some(MergedInOrder(
                            IF IsDefined(before[1].formTypes)
                            THEN ValueOf(before[1].formTypes) ELSE <<>>,
                            ValueOf(formTypes)))]_vars

\* the MethodBinding h of class c is still in registry, with at least the
\* event kinds it has
StillIn(registry, c, h) ==
    /\ c \in DOMAIN registry
    /\ \E j \in 1..Len(registry[c]) :
        /\ registry[c][j].functionName = h.functionName
        /\ KindsOf(h) \subseteq KindsOf(registry[c][j])

\* C27: registry entries are permanent: a class, a MethodBinding and an
\* event kind of a MethodBinding that are in the registry are in it after
\* every step, be it an upsert, a dispatch run or the closing of a form.
C27_RegistryPermanent ==
    [][\A c \in DOMAIN eventRegistry :
           \A i \in 1..Len(eventRegistry[c]) :
               StillIn(eventRegistry', c, eventRegistry[c][i])]_vars

\* the registry holds two kinds for m1 and a binding for m2, and a run over
\* it registered something and threw
C27_Witness ==
    /\ "A" \in DOMAIN eventRegistry
    /\ Len(eventRegistry["A"]) = 2
    /\ Cardinality(KindsOf(eventRegistry["A"][1])) = 2
    /\ run # NoRun
    /\ run.status = "failed"
    /\ calls # <<>>

\* C28: a run whose event context yields no form context fails and has made
\* no registration call; a run whose event context yields one returns
\* without an exception, whatever the registry holds and the form looks
\* like.
C28_ContextFailureOnly ==
    Ran =>
        /\ ~GotForm => (run.status = "failed" /\ calls = <<>>)
        /\ GotForm => run.status = "applied"

\* the upsert calls among the first n calls made
UpsertsMade(n) == SelectSeq(SubSeq(done, 1, n), LAMBDA c : c.op = "upsertFunctionEvent")

\* the positions in done of the calls of total(), in order
TotalCalls ==
    LET at == {i \in 1..Len(done) : done[i].op = "total"}
    IN  [k \in 1..Cardinality(at) |->
            CHOOSE i \in at : Cardinality({j \in at : j <= i}) = k]

RECURSIVE SumOfElapsed(_)
SumOfElapsed(upserts) ==
    IF upserts = <<>> THEN 0
    ELSE SumOfElapsed(SubSeq(upserts, 1, Len(upserts) - 1)) + upserts[Len(upserts)].elapsed

\* C29: the timing collector holds one duration per upsert call made so far,
\* in the order of the calls; total() returns the sum of the durations
\* recorded when it is called and leaves them as they are, so that two
\* calls of total() in a row return the same value.
C29_TimingCollector ==
    /\ Len(durations) = Len(UpsertsMade(Len(done)))
    /\ \A k \in 1..Len(durations) : durations[k] = UpsertsMade(Len(done))[k].elapsed
    /\ Len(emitted) = Len(TotalCalls)
    /\ \A k \in 1..Len(TotalCalls) :
        emitted[k].total = SumOfElapsed(UpsertsMade(TotalCalls[k]))
    /\ \A k \in 1..(Len(TotalCalls) - 1) :
        TotalCalls[k + 1] = TotalCalls[k] + 1 => emitted[k + 1] = emitted[k]

\* two upserts that took 1 and 2, then total() twice: 3 both times
C29_Witness ==
    /\ Len(done) = 4
    /\ durations = <<1, 2>>
    /\ emitted = <<[total |-> 3], [total |-> 3]>>

\* the EventBindings of the class of the run, and the names they list
BindingsAndNames ==
    LET sizes == [i \in 1..Len(Handlers) |->
                    [j \in 1..Len(Handlers[i].events) |->
                        IF isComponentEventDetail(Handlers[i].events[j])
                        THEN 1 + Len(Handlers[i].events[j].componentNames) ELSE 1]]
    IN  reduceSum(Flatten(sizes), 0)

\* apply was entered and has neither returned nor thrown
Running == run.status = "running"

\* apply returned or threw
Ended == run.status \in {"applied", "failed"}

----------------------------------------------------------------------------
(* C31..C36 *)

\* the MethodBinding of method fn of class c, none as the empty tuple
BindingAt(registry, c, fn) ==
    SelectSeq(getFormEvents(registry, c), LAMBDA h : h.functionName = fn)

\* the (class, method) pairs whose MethodBinding differs between r1 and r2
ChangedBindings(r1, r2) ==
    {cm \in (DOMAIN r1 \cup DOMAIN r2) \X Methods :
        BindingAt(r1, cm[1], cm[2]) # BindingAt(r2, cm[1], cm[2])}

\* C31: an upsert call for method m of class C leaves the MethodBinding of
\* every other class and of every other method of C as it was, also when
\* it was made from the same decorator value, with the same name list: the
\* bindings that differ after a step are those of one (class, method) at
\* most, and the order of the bindings that were there stays.
C31_UpsertFrame ==
    [][/\ Cardinality(ChangedBindings(eventRegistry, eventRegistry')) <= 1
       /\ \A c \in DOMAIN eventRegistry :
            /\ c \in DOMAIN eventRegistry'
            /\ Len(eventRegistry[c]) <= Len(eventRegistry'[c])
            /\ \A k \in 1..Len(eventRegistry[c]) :
                eventRegistry'[c][k].functionName = eventRegistry[c][k].functionName]_vars

\* the column decorator for a and b went to m1 and to m2 of class A, then
\* m1 got the column c as well: m2 still has a and b
C31_Witness ==
    /\ BindingAt(eventRegistry, "A", "m1") # <<>>
    /\ NamesOf(BindingAt(eventRegistry, "A", "m1")[1], "OnChange") = {"a", "b", "c"}
    /\ BindingAt(eventRegistry, "A", "m2") =
          <<[events |-> <<[type |-> "OnChange", componentNames |-> <<"a", "b">>]>>,
             functionName |-> "m2", formTypes |-> Undefined]>>

\* C32: only upsert changes the registry: a step that is not an upsert call
\* (none records a duration), that is a dispatch run, a call of
\* logRegisteredFormEvents or the closing of a form, leaves the registered
\* classes and every MethodBinding as they were, and creates no entry for a
\* class that has none.
C32_ReadPathsPure ==
    [][durations' = durations => eventRegistry' = eventRegistry]_vars

\* a handler of class B, for which nothing is registered, was dispatched
\* and asked to log its events: the registry still holds class A only
C32_Witness ==
    /\ run # NoRun
    /\ run.instance.constructor = "B"
    /\ Includes(run.log, "flushGroupedWarnings")
    /\ Includes(run.log, "logRegisteredFormEvents")
    /\ DOMAIN eventRegistry = {"A"}
    /\ Len(eventRegistry["A"]) = 2

\* the MethodBindings upserted under exactly the class c
OwnBindings(c) == IF c \in DOMAIN eventRegistry THEN eventRegistry[c] ELSE <<>>

\* C33: a dispatch run for an instance of class C registers only bindings
\* that were upserted under exactly C: every registration call is for a
\* method and an event kind of a MethodBinding of C, and none is made for
\* what was upserted under another class, the base class of C included;
\* get of a class returns what was upserted under that class and nothing
\* else.
C33_ExactClassKeying ==
    /\ \A c \in ClassNames : getFormEvents(eventRegistry, c) = OwnBindings(c)
    /\ Ran =>
        \A k \in 1..Len(calls) :
            \E i \in 1..Len(OwnBindings(run.instance.constructor)) :
                /\ OwnBindings(run.instance.constructor)[i].functionName =
                       calls[k].handler.functionName
                /\ calls[k].eventType \in KindsOf(OwnBindings(run.instance.constructor)[i])

\* a handler of B, which extends A: A has a binding for m1, B one for m2
\* only, and the run registered m2 and not the inherited m1
C33_Witness ==
    /\ Ran
    /\ run.instance.constructor = "B"
    /\ BindingAt(eventRegistry, "A", "m1") # <<>>
    /\ BindingAt(eventRegistry, "A", "m1")[1].events # <<>>
    /\ BindingAt(eventRegistry, "B", "m1") = <<>>
    /\ calls # <<>>
    /\ \A k \in 1..Len(calls) : calls[k].handler.functionName = "m2"

\* the host event kind the listeners of an operation wait for
OperationKind(operation) == CHOOSE k \in FormEventTypes : KindOperation[k] = operation

\* the MethodBinding h declares the kind of the last host event, for its
\* component if the kind is one on components
DeclaresLastEvent(h) ==
    \E j \in 1..Len(h.events) :
        /\ h.events[j].type = OperationKind(lastEvent.operation)
        /\ isComponentEventDetail(h.events[j]) =>
               lastEvent.component \in Range(h.events[j].componentNames)

FirstRun == apply(<<>>, eventRegistry, run.instance, run.executionContext, run.formType)

\* C35: a dispatch run is determined by the registry, the form, the form
\* type and the members of the instance: its registration calls and the
\* diagnostics it emits are those of any other run started with the same
\* four, whatever runs came before, and so those of such a run that is the
\* first of all.
C35_DispatchDeterminism ==
    (Ran /\ Applied) =>
        /\ calls = FirstRun.calls
        /\ emitted = FirstRun.emitted

\* the expand / collapse listeners the run left on the tab of the last event
TabSpecificListeners ==
    {k \in 1..Len(TabListeners(lastEvent.tab)) :
        TabListeners(lastEvent.tab)[k].eventType \in {"OnTabExpand", "OnTabCollapse"}}

\* the methods the last event invoked through listeners of the given kind
InvokedBy(eventType) ==
    {invoked[k].functionName : k \in {x \in 1..Len(invoked) : invoked[x].eventType = eventType}}

\* C36: in the tab-expand / tab-collapse synthesis a state-change event
\* whose event source is null invokes the user method through no expand or
\* collapse listener and raises nothing; when the source is there, the
\* listener invokes the method iff the display state of that source, the one
\* of the incoming event, is the state the kind waits for.
C36_NullSourceAndEventTimeState ==
    Delivered =>
        /\ ~lastEvent.raised
        /\ \A k \in TabSpecificListeners :
               LET call == TabListeners(lastEvent.tab)[k]
               IN  call.handler.functionName \in InvokedBy(call.eventType)
                       <=> /\ lastEvent.source.present
                           /\ lastEvent.source.displayState = TargetState(call.eventType)

\* m1 waits for tab-expand and m2 for tab-collapse on t: an event of t
\* without a source reached both listeners and invoked neither method
C36_Witness ==
    /\ Delivered
    /\ ~lastEvent.source.present
    /\ ~lastEvent.raised
    /\ {TabListeners("t")[k].eventType : k \in TabSpecificListeners}
           = {"OnTabExpand", "OnTabCollapse"}
    /\ invoked = <<>>

====
